---- MODULE Spec2Model ----
(***************************************************************************)
(* A model of the freeseek gateway core: the credential pool, the provider *)
(* adapters' chat() with its retry / failover orchestration, the request   *)
(* admission queue, the DeepSeek stream converter, the tool-call parser    *)
(* and the routing of chat requests to the registered adapters.            *)
(***************************************************************************)
EXTENDS Integers, Sequences, FiniteSets, TLC

VARIABLES
    \* ---- CredentialPool (credential-pool.ts) ----
    entries,        \* this.entries: sequence of entry objects
    currentIndex,   \* this.currentIndex
    strategy,       \* this.strategy
    store,          \* the pool's JSON file: [exists, data]
    nextId,         \* number of ids crypto.randomUUID() has handed out
    ret,            \* history: the last pool call and what it returned
    rrHist,         \* history: ids returned by consecutive round-robin next() calls
    fresh,          \* history: no next() call has succeeded since construction
    streak,         \* history: per entry object, markFailed calls since the last reset
    \* ---- provider adapters (providers/deepseek.ts, claude.ts, qwen.ts) ----
    kind,           \* which adapter this is: "deepseek", "claude" or "qwen"
    cache,          \* sessionCache: session key -> session handle
    clients,        \* ClaudeProvider.clients: credential ids with a web client
    pc,             \* per chat() call: the await it is suspended at
    req,            \* per chat() call: the request (its session key)
    entry,          \* per chat() call: const entry = this.pool.next()
    fallback,       \* per chat() call: const fallback = this.pool.next()
    sess,           \* per chat() call: the session handle of the pending upstream call
    responseStream, \* per chat() call: let responseStream
    log,            \* history: per chat() call, what it did, in order
    \* ---- POST /v1/chat/completions handler (streaming branch) ----
    sent,           \* per request: fragments of the stream piped so far
    delivered,      \* per request: fragments written to the client, in order
    \* ---- RequestQueue, one provider key ----
    maxPerMinute,   \* configs.get(providerId).maxPerMinute, 0 when not configured
    queue,          \* queues.get(providerId): waiting tasks, oldest first
    processing,     \* processing.get(providerId)
    timestamps,     \* timestamps.get(providerId), each kept as its age now - t
    timer,          \* timers.get(providerId): time left until it fires, or NoTimer
    enq,            \* enqueue calls made so far; a task is named by its call number
    task,           \* per task: where its action is
    future,         \* per task: the promise enqueue returned
    started,        \* history: tasks in the order their actions were started
    startAges,      \* history: for each start, the time since it
    burst,          \* history: enqueue calls made before the clock first moved
    clockMoved,     \* history: has the clock moved since construction
    \* ---- createStreamConverter(model, options), one stream ----
    upstream,       \* the lines the upstream response consists of
    lastLineOpen,   \* the upstream ended without a newline after its last line
    consumed,       \* lines transform() has taken out of the buffer so far
    reasoner,       \* model.includes("reasoner")
    stripReasoning, \* options.stripReasoning
    thinkingPhase,
    thinkingEnded,
    hasAnyContent,
    out,            \* what the transform has pushed, in order
    flushed,        \* flush() has run
    \* ---- createStreamToolCallParser(), one parser fed one text ----
    text,           \* the whole text the model produced, a sequence of characters
    fed,            \* characters handed to feed() so far
    tagBuffer,
    inTag,
    pendingOut,     \* history: the pendingText of all feed() calls and flush(), joined
    completed,      \* history: the completedCalls of all feed() calls and flush(), joined
    drained,        \* flush() has been called
    pieces,         \* history: the pieces the text was put together from
    cutInTag,       \* history: some feed() call ended inside a tool_call tag
    \* ---- provider registry and POST /v1/chat/completions routing ----
    registry,       \* the registered adapters, in registration order
    hPc,            \* per request: where its handler is
    hModel,         \* per request: req.body.model
    hProvider,      \* per request: const provider = registry.resolve(model)
    hStatus,        \* per request: the HTTP status answered, 0 while unanswered
    admitted,       \* per adapter id: requests waiting in its admission queue
    enqLog,         \* history: per adapter id, the requests enqueued, in order
    chatLog,        \* history: per adapter id, the requests its chat() was called for
    \* ---- createClaudeStreamConverter(options), one stream ----
    claudeUpstream, \* the lines of the Claude upstream response
    claudeConsumed, \* lines transform() has taken out of the buffer so far
    currentEvent,
    claudeOut,      \* what the transform has pushed, in order
    claudeFlushed,  \* flush() has run
    \* ---- CredentialPool.load ----
    loadWrote,      \* whether the last load() called save()
    \* ---- sanitize(text, isReasoning), one call ----
    rawText,        \* the text of one frame, a sequence of tokens
    asReasoning,    \* the isReasoning argument
    emitted,        \* what sanitize returned for rawText
    sanDone,        \* whether sanitize has been applied
    \* ---- several providers behind one RequestQueue ----
    poolOf,         \* per provider: its pool's entries
    indexOf,        \* per provider: its pool's currentIndex
    cacheOf,        \* per provider: its cached session, 0 when none
    limitOf,        \* per provider: configs.get(id).maxPerMinute, 0 when not configured
    queueOf,        \* per provider: queues.get(id)
    processingOf,   \* per provider: processing.get(id)
    stampsOf,       \* per provider: timestamps.get(id), as ages
    timerOf,        \* per provider: timers.get(id)
    call,           \* per chat request: its provider, where it is, the credential it got
    actor,          \* the provider the last operation was made on
    \* ---- CredentialRefresher over one provider ----
    refTimer,       \* this.timer !== null
    liveTimers,     \* interval timers set and not cleared
    refConfig,      \* this.config: enabled, leadTimeMs
    refreshing,     \* this.refreshing.has(provider.id)
    refPool,        \* the provider's pool: per Active entry, how far its credential is from expiry
    refStarted      \* history: start() has been called

poolVars == <<entries, currentIndex, strategy, store, nextId, ret, rrHist, fresh, streak>>
chatVars == <<kind, cache, clients, pc, req, entry, fallback, sess, responseStream, log>>
handlerVars == <<sent, delivered>>

queueVars == <<maxPerMinute, queue, processing, timestamps, timer, enq, task, future,
               started, startAges, burst, clockMoved>>

convVars == <<upstream, lastLineOpen, consumed, reasoner, stripReasoning, thinkingPhase,
              thinkingEnded, hasAnyContent, out, flushed>>

parserVars == <<text, fed, tagBuffer, inTag, pendingOut, completed, drained, pieces,
                cutInTag>>

routeVars == <<registry, hPc, hModel, hProvider, hStatus, admitted, enqLog, chatLog>>

claudeVars == <<claudeUpstream, claudeConsumed, currentEvent, claudeOut, claudeFlushed>>

loadVars == <<loadWrote>>

sanVars == <<rawText, asReasoning, emitted, sanDone>>

provVars == <<poolOf, indexOf, cacheOf, limitOf, queueOf, processingOf, stampsOf, timerOf, call, actor>>

refVars == <<refTimer, liveTimers, refConfig, refreshing, refPool, refStarted>>

restVars == <<queueVars, convVars, parserVars, routeVars, claudeVars, loadVars, sanVars, provVars, refVars>>
nonQueueVars == <<poolVars, chatVars, handlerVars, convVars, parserVars, routeVars, claudeVars, loadVars, sanVars, provVars, refVars>>
nonConvVars == <<poolVars, chatVars, handlerVars, queueVars, parserVars, routeVars, claudeVars, loadVars, sanVars, provVars, refVars>>
nonParserVars == <<poolVars, chatVars, handlerVars, queueVars, convVars, routeVars, claudeVars, loadVars, sanVars, provVars, refVars>>
nonRouteVars == <<poolVars, chatVars, handlerVars, queueVars, convVars, parserVars, claudeVars, loadVars, sanVars, provVars, refVars>>
nonClaudeVars == <<poolVars, chatVars, handlerVars, queueVars, convVars, parserVars, routeVars, loadVars, sanVars, provVars, refVars>>
nonLoadVars == <<poolVars, chatVars, handlerVars, queueVars, convVars, parserVars, routeVars, claudeVars, sanVars, provVars, refVars>>
nonSanVars == <<poolVars, chatVars, handlerVars, queueVars, convVars, parserVars, routeVars, claudeVars, loadVars, provVars, refVars>>
nonProvVars == <<poolVars, chatVars, handlerVars, queueVars, convVars, parserVars, routeVars, claudeVars, loadVars, sanVars, refVars>>
nonRefVars == <<poolVars, chatVars, handlerVars, queueVars, convVars, parserVars, routeVars, claudeVars, loadVars, sanVars, provVars>>
nonPoolVars == <<chatVars, handlerVars, restVars>>
nonChatVars == <<nextId, ret, rrHist, fresh, streak, restVars>>

vars == <<poolVars, chatVars, handlerVars, restVars>>

\* ------------------------------------------------------------------ bounds
MaxIds == 2          \* ids randomUUID may hand out in one run
MaxEntries == 2      \* longest entry list explored
MaxFailCount == 6    \* markFailed calls counted in the pool's failCounts at one time
MaxReorderLen == 2   \* longest id list passed to reorder
NumChats == 2        \* chat() calls that may overlap
NumKeys == 1         \* distinct session keys callers use
StreamLen == 2       \* fragments in an upstream response
MaxLines == 3        \* lines in an upstream response fed to the converter
MaxSegs == 3         \* pieces a text given to the tool-call parser is made of
NumRequests == 2     \* chat completion requests in one run
MaxAdapters == 3     \* adapters registered at most
MaxTasks == 5        \* enqueue calls in one run
MaxLimit == 3        \* largest maxPerMinute configured
ClockStep == 60000   \* the clock also moves in steps of this many ms

\* ------------------------------------------------------- program constants
FailThreshold == 5   \* markFailed: failCount >= 5 demotes to "failed"
windowMs == 60000    \* processQueue: the rate window
slackMs == 100       \* processQueue: added to the deferral wait

Null == 0
IdSet == 1..MaxIds
Statuses == {"active", "expired", "failed"}
Strategies == {"round-robin", "random"}

\* ---------------------------------------------------------------- helpers
SeqsUpTo(S, n) == UNION {[1..k -> S] : k \in 0..n}

RECURSIVE FindIndexFrom(_, _, _)
FindIndexFrom(es, id, i) ==
    IF i > Len(es) THEN 0
    ELSE IF es[i].id = id THEN i
    ELSE FindIndexFrom(es, id, i + 1)

\* Array.prototype.findIndex(e => e.id === id), 1-based, 0 when absent
FindIndex(es, id) == FindIndexFrom(es, id, 1)

\* the entry object this.entries.find(e => e.id === id) yields (its ref), 0 when absent
FindRef(es, id) == IF FindIndex(es, id) = 0 THEN 0 ELSE es[FindIndex(es, id)].ref


\* the smallest object reference not in use
FreshRef(es) == CHOOSE r \in 1..(Len(es) + 1) : \A i \in DOMAIN es : es[i].ref # r

\* the credentials objects a run tells apart: the one a capture produces and
\* the ones a legacy single-object file may hold
LegacyObjects == {"legacyA", "legacyB"}

NewEntryWith(id, r, creds) ==
    [id |-> id, ref |-> r, credentials |-> creds, status |-> "active",
     failCount |-> 0, lastUsed |-> 0, lastError |-> 0]

NewEntry(id, r) == NewEntryWith(id, r, "captured")

\* JSON.stringify(this.entries): object identity is not part of the file
Serialize(es) == [i \in DOMAIN es |-> [es[i] EXCEPT !.ref = 0]]

\* the file: absent, or holding JSON whose shape load() tells apart (an array of
\* entries, a single object, any other JSON value, text that is not JSON)
NoFile == [exists |-> FALSE, shape |-> "none", data |-> <<>>]
Saved(es) == [exists |-> TRUE, shape |-> "array", data |-> Serialize(es)]
LegacyFile(obj) == [exists |-> TRUE, shape |-> "object", data |-> obj]
OtherFile(shape) == [exists |-> TRUE, shape |-> shape, data |-> <<>>]

IsActive(e) == e.status = "active"
ActiveOf(es) == SelectSeq(es, IsActive)

count == Len(entries)
activeCount == Len(ActiveOf(entries))

Other == [op |-> "other", id |-> Null]
Chats == 1..NumChats
Keys == 1..NumKeys
Kinds == {"deepseek", "claude", "qwen"}
NoSess == [cred |-> 0, by |-> 0, n |-> 0]
NoEntry == [ref |-> 0, id |-> Null]
NoHist == [h |-> <<>>, fromFresh |-> FALSE]
Refs == 1..(MaxEntries + 1)

\* the last n elements of a sequence
LastN(s, n) == IF Len(s) <= n THEN s ELSE SubSeq(s, Len(s) - n + 1, Len(s))

\* ------------------------------------------------------ CredentialPool.next
\* a next() that only leaves out Expired entries, so hands out Failed ones
NextOutcomesFailedToo(es, ci, strat) ==
    LET NotExpired(e) == e.status # "expired"
        active == SelectSeq(es, NotExpired)
        n == Len(active)
    IN  IF n = 0 THEN {[ref |-> 0, id |-> Null, ci |-> ci]}
        ELSE IF strat = "random"
             THEN {[ref |-> active[k].ref, id |-> active[k].id, ci |-> ci] : k \in 1..n}
             ELSE LET c == ci % n
                  IN  {[ref |-> active[c + 1].ref, id |-> active[c + 1].id,
                        ci |-> (c + 1) % n]}

\* next(): the possible results [ref, id, ci] (Math.random picks any slot);
\* ref = 0 stands for the null return
NextOutcomes(es, ci, strat) ==
    LET active == ActiveOf(es)
        n == Len(active)
    IN  IF n = 0 THEN {[ref |-> 0, id |-> Null, ci |-> ci]}
        ELSE IF strat = "random"
             THEN {[ref |-> active[k].ref, id |-> active[k].id, ci |-> ci] : k \in 1..n}
             ELSE LET c == ci % n
                  IN  {[ref |-> active[c + 1].ref, id |-> active[c + 1].id,
                        ci |-> (c + 1) % n]}

\* entry.lastUsed = new Date().toISOString()
Stamp(e) == [e EXCEPT !.lastUsed = 1]


\* ------------------------------------------- markFailed / markSuccess / ...
\* a markFailed that demotes one call late
FailOneLate(e) ==
    LET fc == e.failCount + 1
    IN  [e EXCEPT !.failCount = fc, !.lastError = 1,
                  !.status = IF fc > FailThreshold THEN "failed" ELSE e.status]

FailOne(e) ==
    LET fc == e.failCount + 1
    IN  [e EXCEPT !.failCount = fc, !.lastError = 1,
                  !.status = IF fc >= FailThreshold THEN "failed" ELSE e.status]

\* a markSuccess that leaves failCount as it is
SucceedOneKeepsCount(e) ==
    [e EXCEPT !.lastError = 0,
              !.status = IF e.status = "failed" THEN "active" ELSE e.status]

SucceedOne(e) ==
    [e EXCEPT !.failCount = 0, !.lastError = 0,
              !.status = IF e.status = "failed" THEN "active" ELSE e.status]

ExpireOne(e) == [e EXCEPT !.status = "expired"]

ResetOne(e) == [e EXCEPT !.status = "active", !.failCount = 0, !.lastError = 0]

\* the writes each pool call makes to the entry object it found
ApplyOp(op, e) ==
    CASE op = "markFailed" -> FailOne(e)
      [] op = "markSuccess" -> SucceedOne(e)
      [] op = "markExpired" -> ExpireOne(e)
      [] op = "resetStatus" -> ResetOne(e)
      [] op = "next" -> Stamp(e)

\* a write through an object reference: every list slot holding that object sees it
UpdateObj(es, r, op) ==
    [i \in DOMAIN es |-> IF es[i].ref = r THEN ApplyOp(op, es[i]) ELSE es[i]]

\* the entry list after next() returned the object r
AfterNext(es, r) == IF r = 0 THEN es ELSE UpdateObj(es, r, "next")

\* the entry list after a mark call on id (unchanged when no entry has that id)
Marked(es, id, op) ==
    IF FindRef(es, id) = 0 THEN es ELSE UpdateObj(es, FindRef(es, id), op)

\* the file after a mark call: saved only when the entry was found
MarkSaved(es, id, op, st) ==
    IF FindRef(es, id) = 0 THEN st ELSE Saved(Marked(es, id, op))

RECURSIVE SumFails(_, _)
SumFails(es, seen) ==
    IF es = <<>> THEN 0
    ELSE IF Head(es).ref \in seen THEN SumFails(Tail(es), seen)
    ELSE Head(es).failCount + SumFails(Tail(es), seen \cup {Head(es).ref})

\* the failCounts of the pool's entry objects, added up
TotalFails(es) == SumFails(es, {})

\* ------------------------------------------------------------ remove / reorder
RemoveAt(es, idx) == [i \in 1..(Len(es) - 1) |-> IF i < idx THEN es[i] ELSE es[i + 1]]

RefsOf(es) == {es[i].ref : i \in DOMAIN es}

RECURSIVE Named(_, _)
\* first loop of reorder: one push per id of the list that names an entry
Named(es, ids) ==
    IF ids = <<>> THEN <<>>
    ELSE LET i == FindIndex(es, Head(ids))
         IN  (IF i = 0 THEN <<>> ELSE <<es[i]>>) \o Named(es, Tail(ids))

RECURSIVE Unmentioned(_, _)
\* second loop of reorder: the entries ordered does not include yet
Unmentioned(es, ordered) ==
    IF es = <<>> THEN <<>>
    ELSE IF Head(es).ref \in RefsOf(ordered)
         THEN Unmentioned(Tail(es), ordered)
         ELSE <<Head(es)>> \o Unmentioned(Tail(es), ordered \o <<Head(es)>>)

Reordered(es, ids) == Named(es, ids) \o Unmentioned(es, Named(es, ids))

\* ------------------------------------------------------- the pool's actions
\* history kept by a call that is not next(): the run of round-robin results
\* ends when the call changes the entry list or a status
HistAfter(es2) ==
    IF [i \in DOMAIN es2 |-> <<es2[i].id, es2[i].status>>]
         = [i \in DOMAIN entries |-> <<entries[i].id, entries[i].status>>]
    THEN rrHist ELSE NoHist

PoolNext ==
    \E o \in NextOutcomes(entries, currentIndex, strategy) :
        /\ entries' = AfterNext(entries, o.ref)
        /\ currentIndex' = o.ci
        /\ ret' = [op |-> "next", id |-> o.id]
        /\ rrHist' = IF o.ref = 0 THEN rrHist
                     ELSE IF strategy = "random" THEN NoHist
                     ELSE [h |-> LastN(Append(rrHist.h, o.id), MaxEntries),
                           fromFresh |-> IF rrHist.h = <<>> THEN fresh
                                         ELSE rrHist.fromFresh /\ Len(rrHist.h) < MaxEntries]
        /\ fresh' = (fresh /\ o.ref = 0)
        /\ UNCHANGED <<strategy, store, nextId, streak, nonPoolVars>>

PoolMarkFailed ==
    \E id \in IdSet :
        /\ TotalFails(entries) < MaxFailCount
        /\ entries' = Marked(entries, id, "markFailed")
        /\ store' = MarkSaved(entries, id, "markFailed", store)
        /\ ret' = Other
        /\ streak' = IF FindRef(entries, id) = 0 THEN streak
                     ELSE [streak EXCEPT ![FindRef(entries, id)] = @ + 1]
        /\ rrHist' = HistAfter(entries')
        /\ UNCHANGED <<currentIndex, strategy, nextId, fresh, nonPoolVars>>

PoolMarkSuccess ==
    \E id \in IdSet :
        /\ entries' = Marked(entries, id, "markSuccess")
        /\ store' = MarkSaved(entries, id, "markSuccess", store)
        /\ ret' = Other
        /\ streak' = IF FindRef(entries, id) = 0 THEN streak
                     ELSE [streak EXCEPT ![FindRef(entries, id)] = 0]
        /\ rrHist' = HistAfter(entries')
        /\ UNCHANGED <<currentIndex, strategy, nextId, fresh, nonPoolVars>>

PoolMarkExpired ==
    \E id \in IdSet :
        /\ entries' = Marked(entries, id, "markExpired")
        /\ store' = MarkSaved(entries, id, "markExpired", store)
        /\ ret' = Other
        /\ rrHist' = HistAfter(entries')
        /\ UNCHANGED <<currentIndex, strategy, nextId, fresh, streak, nonPoolVars>>

PoolResetStatus ==
    \E id \in IdSet :
        /\ entries' = Marked(entries, id, "resetStatus")
        /\ store' = MarkSaved(entries, id, "resetStatus", store)
        /\ ret' = Other
        /\ streak' = IF FindRef(entries, id) = 0 THEN streak
                     ELSE [streak EXCEPT ![FindRef(entries, id)] = 0]
        /\ rrHist' = HistAfter(entries')
        /\ UNCHANGED <<currentIndex, strategy, nextId, fresh, nonPoolVars>>

\* add(creds): push a new Active entry with a fresh id, save
Added(es, id) == Append(es, NewEntry(id, FreshRef(es)))

PoolAdd ==
    /\ nextId < MaxIds
    /\ Len(entries) < MaxEntries
    /\ entries' = Added(entries, nextId + 1)
    /\ nextId' = nextId + 1
    /\ store' = Saved(entries')
    /\ streak' = [streak EXCEPT ![FreshRef(entries)] = 0]
    /\ ret' = Other
    /\ rrHist' = NoHist
    /\ UNCHANGED <<currentIndex, strategy, fresh, nonPoolVars>>

\* set(creds): with at most one entry replace it (keeping its id), else add
PoolSet ==
    /\ IF Len(entries) <= 1
       THEN /\ Len(entries) = 0 => nextId < MaxIds
            /\ entries' = <<NewEntry(IF Len(entries) = 1 THEN entries[1].id
                                     ELSE nextId + 1, 1)>>
            /\ nextId' = IF Len(entries) = 1 THEN nextId ELSE nextId + 1
            /\ streak' = [streak EXCEPT ![1] = 0]
       ELSE /\ nextId < MaxIds
            /\ Len(entries) < MaxEntries
            /\ entries' = Added(entries, nextId + 1)
            /\ nextId' = nextId + 1
            /\ streak' = [streak EXCEPT ![FreshRef(entries)] = 0]
    /\ store' = Saved(entries')
    /\ ret' = Other
    /\ rrHist' = NoHist
    /\ UNCHANGED <<currentIndex, strategy, fresh, nonPoolVars>>

PoolRemove ==
    \E id \in IdSet :
        LET idx == FindIndex(entries, id)
        IN  /\ idx > 0
            /\ entries' = RemoveAt(entries, idx)
            /\ currentIndex' = IF currentIndex >= Len(entries') THEN 0 ELSE currentIndex
            /\ store' = Saved(entries')
            /\ ret' = Other
            /\ rrHist' = NoHist
            /\ UNCHANGED <<strategy, nextId, fresh, streak, nonPoolVars>>

PoolClearAll ==
    /\ Len(entries) > 0
    /\ entries' = <<>>
    /\ currentIndex' = 0
    /\ store' = NoFile
    /\ ret' = Other
    /\ rrHist' = NoHist
    /\ UNCHANGED <<strategy, nextId, fresh, streak, nonPoolVars>>

PoolReorder ==
    \E ids \in SeqsUpTo(IdSet, MaxReorderLen) :
        /\ Len(Reordered(entries, ids)) <= MaxEntries
        /\ entries' = Reordered(entries, ids)
        /\ store' = Saved(entries')
        /\ ret' = Other
        /\ rrHist' = NoHist
        /\ UNCHANGED <<currentIndex, strategy, nextId, fresh, streak, nonPoolVars>>

PoolSetStrategy ==
    \E s \in Strategies :
        /\ strategy' = s
        /\ ret' = Other
        /\ rrHist' = IF s = strategy THEN rrHist ELSE NoHist
        /\ UNCHANGED <<entries, currentIndex, store, nextId, fresh, streak, nonPoolVars>>

Tasks == 1..MaxTasks
NoTimer == -1

\* new RequestQueue(): empty maps; the limit is whatever setConfig stored
QueueIdle ==
    /\ queue = <<>>
    /\ processing = 0
    /\ timestamps = <<>>
    /\ timer = NoTimer
    /\ enq = 0
    /\ task = [t \in Tasks |-> "none"]
    /\ future = [t \in Tasks |-> "none"]
    /\ started = <<>>
    /\ startAges = <<>>
    /\ burst = 0
    /\ clockMoved = FALSE

\* a converter that was given an empty upstream and has not run
ConvIdle ==
    /\ upstream = <<>>
    /\ lastLineOpen = FALSE
    /\ consumed = 0
    /\ reasoner = FALSE
    /\ stripReasoning = FALSE
    /\ thinkingPhase = FALSE
    /\ thinkingEnded = FALSE
    /\ hasAnyContent = FALSE
    /\ out = <<>>
    /\ flushed = FALSE

\* a parser that was fed nothing
ParserIdle ==
    /\ text = <<>>
    /\ fed = 0
    /\ tagBuffer = <<>>
    /\ inTag = FALSE
    /\ pendingOut = <<>>
    /\ completed = <<>>
    /\ drained = FALSE
    /\ pieces = <<>>
    /\ cutInTag = FALSE

Requests == 1..NumRequests
Adapters == {"deepseek", "claude", "qwen", "xxx"}
NoProvider == "null"

\* a server that has no adapter registered and has received no request
RouteIdle ==
    /\ registry = <<>>
    /\ hPc = [r \in Requests |-> "idle"]
    /\ hModel = [r \in Requests |-> <<>>]
    /\ hProvider = [r \in Requests |-> NoProvider]
    /\ hStatus = [r \in Requests |-> 0]
    /\ admitted = [a \in Adapters |-> <<>>]
    /\ enqLog = [a \in Adapters |-> <<>>]
    /\ chatLog = [a \in Adapters |-> <<>>]

\* a Claude converter that was given an empty upstream and has not run
ClaudeConvIdle ==
    /\ claudeUpstream = <<>>
    /\ claudeConsumed = 0
    /\ currentEvent = ""
    /\ claudeOut = <<>>
    /\ claudeFlushed = FALSE

\* no pool has been constructed from a file
LoadIdle ==
    loadWrote = FALSE

\* no fragment is being sanitized
SanIdle ==
    /\ rawText = <<>>
    /\ asReasoning = FALSE
    /\ emitted = <<>>
    /\ sanDone = FALSE

\* no provider is registered
ProvIdle ==
    /\ poolOf = <<>>
    /\ indexOf = <<>>
    /\ cacheOf = <<>>
    /\ limitOf = <<>>
    /\ queueOf = <<>>
    /\ processingOf = <<>>
    /\ stampsOf = <<>>
    /\ timerOf = <<>>
    /\ call = <<>>
    /\ actor = "none"

\* new CredentialRefresher(), never started, over an empty pool
RefIdle ==
    /\ refTimer = FALSE
    /\ liveTimers = 0
    /\ refConfig = [enabled |-> TRUE, lead |-> "short"]
    /\ refreshing = FALSE
    /\ refPool = <<>>
    /\ refStarted = FALSE

RestIdle == QueueIdle /\ maxPerMinute = 0 /\ ConvIdle /\ ParserIdle /\ RouteIdle /\ ClaudeConvIdle /\ LoadIdle /\ SanIdle /\ ProvIdle /\ RefIdle

\* an adapter with no chat() call made yet
ChatIdle ==
    /\ cache = [k \in Keys |-> NoSess]
    /\ clients = {}
    /\ pc = [p \in Chats |-> "idle"]
    /\ req = [p \in Chats |-> 0]
    /\ entry = [p \in Chats |-> NoEntry]
    /\ fallback = [p \in Chats |-> NoEntry]
    /\ sess = [p \in Chats |-> NoSess]
    /\ responseStream = [p \in Chats |-> 0]
    /\ log = [p \in Chats |-> <<>>]
    /\ sent = [p \in Chats |-> 0]
    /\ delivered = [p \in Chats |-> <<>>]

\* new CredentialPool(filePath) with no file on disk
PoolInit ==
    /\ entries = <<>>
    /\ currentIndex = 0
    /\ strategy = "round-robin"
    /\ store = NoFile
    /\ nextId = 0
    /\ ret = Other
    /\ rrHist = NoHist
    /\ fresh = TRUE
    /\ streak = [r \in Refs |-> 0]
    /\ ChatIdle
    /\ kind = "deepseek"
    /\ RestIdle

PoolNextStep ==
    \/ PoolNext
    \/ PoolMarkFailed
    \/ PoolMarkSuccess
    \/ PoolMarkExpired
    \/ PoolResetStatus
    \/ PoolAdd
    \/ PoolSet
    \/ PoolRemove
    \/ PoolClearAll
    \/ PoolReorder
    \/ PoolSetStrategy

SpecPool == PoolInit /\ [][PoolNextStep]_vars

\* ------------------------------------------------------------ pool claims
\* the status of the entry object r, "absent" when the list does not hold it
StatusOfRef(es, r) ==
    IF \E i \in DOMAIN es : es[i].ref = r
    THEN es[CHOOSE i \in DOMAIN es : es[i].ref = r].status
    ELSE "absent"

\* C4: in every reachable pool state activeCount() <= count(), and the last
\* next() call returned null exactly when no entry is Active (either strategy).
C4_ActiveCountAndNext ==
    /\ activeCount <= count
    /\ ret.op = "next" => ((ret.id = Null) <=> (activeCount = 0))

\* a non-empty pool under the random strategy whose next() returned null
C4_Witness ==
    /\ ret.op = "next"
    /\ ret.id = Null
    /\ count = 2
    /\ strategy = "random"

\* C5: a markFailed call on an Active entry makes it Failed exactly when it is
\* the 5th call in a row since the entry was added or last had markSuccess or
\* resetStatus applied (fewer leave it Active), and a markFailed call on a
\* Failed entry leaves it Failed.
C5_FailedOnFifth ==
    [][\A r \in Refs :
         streak'[r] = streak[r] + 1 =>
            /\ StatusOfRef(entries, r) = "active" =>
                  /\ StatusOfRef(entries', r) \in {"active", "failed"}
                  /\ StatusOfRef(entries', r) = "failed" <=> streak'[r] = FailThreshold
            /\ StatusOfRef(entries, r) = "failed" => StatusOfRef(entries', r) = "failed"]_vars

\* an entry that took a 6th markFailed in a row and is Failed
C5_Witness ==
    \E i \in DOMAIN entries :
        /\ entries[i].status = "failed"
        /\ streak[entries[i].ref] = FailThreshold + 1

\* C6: under round-robin, the ids returned by consecutive next() calls with no
\* intervening change follow the Active entries in cyclic insertion order, any
\* N of them in a row (N = number of Active entries) are N distinct entries,
\* and on a fresh pool they start with the first Active entry.
C6_RoundRobinVisitsEachOnce ==
    LET act == ActiveOf(entries)
        n == Len(act)
        h == rrHist.h
    IN  (strategy = "round-robin" /\ h # <<>>) =>
            /\ \E k \in 0..(n - 1) :
                   \A i \in 1..Len(h) : h[i] = act[((k + i - 1) % n) + 1].id
            /\ Len(h) >= n =>
                   Cardinality({h[i] : i \in (Len(h) - n + 1)..Len(h)}) = n
            /\ rrHist.fromFresh =>
                   \A i \in 1..Len(h) : h[i] = act[((i - 1) % n) + 1].id

\* ------------------------------------------------ provider adapters: chat()
\* DeepSeekProvider and ClaudeProvider keep a session per session key, QwenProvider none
HasSessions == kind \in {"deepseek", "claude"}

\* how an upstream call ends: a stream, an auth-class error, another error
Outcomes == {"ok", "auth", "other"}

CallSucceededAlways(res) == TRUE

\* a client call hands back a stream only for an ok response, else it throws
CallSucceeded(res) == res = "ok"

IsAuthClassAny(res) == res # "ok"

\* the catch block's test on the error message (40x / session / 认证)
IsAuthClass(res) == res = "auth"

Ev(ev, cred, res) == [ev |-> ev, cred |-> cred, res |-> res]

IsChatEv(e) == e.ev = "chat"
ChatEvents(l) == SelectSeq(l, IsChatEv)

\* a loaded pool file: entries in the states earlier runs can leave them in
EntryShapes == {<<"active", 0>>, <<"active", FailThreshold - 1>>, <<"expired", 0>>}

LoadedEntry(i, shape) ==
    [NewEntry(i, i) EXCEPT !.status = shape[1], !.failCount = shape[2],
                           !.lastError = IF shape[2] > 0 THEN 1 ELSE 0]

LoadedPools ==
    UNION {{[i \in 1..n |-> LoadedEntry(i, f[i])] : f \in [1..n -> EntryShapes]} :
             n \in 0..MaxEntries}

\* sessionCache.get(sessionKey), then createSession() when there is none
AcquireSession(p, key) ==
    IF cache[key] # NoSess
    THEN /\ sess' = [sess EXCEPT ![p] = cache[key]]
         /\ pc' = [pc EXCEPT ![p] = "chat1"]
    ELSE /\ sess' = sess
         /\ pc' = [pc EXCEPT ![p] = "create1"]

\* chat(request): pool.next(), the client, the cached session
ChatStart(p, key) ==
    /\ pc[p] = "idle"
    /\ req' = [req EXCEPT ![p] = key]
    /\ \E o \in NextOutcomes(entries, currentIndex, strategy) :
          /\ entries' = AfterNext(entries, o.ref)
          /\ currentIndex' = o.ci
          /\ IF o.ref = 0
             THEN /\ pc' = [pc EXCEPT ![p] = "failed"]
                  /\ log' = [log EXCEPT ![p] = @ \o <<Ev("next", Null, "null"),
                                                       Ev("throw", Null, "nocreds")>>]
                  /\ UNCHANGED <<entry, sess>>
             ELSE /\ entry' = [entry EXCEPT ![p] = [ref |-> o.ref, id |-> o.id]]
                  /\ log' = [log EXCEPT ![p] = @ \o <<Ev("next", o.id, "entry")>>]
                  /\ CASE kind = "qwen" ->
                            /\ pc' = [pc EXCEPT ![p] = "chat1"]
                            /\ sess' = sess
                       [] kind = "claude" ->
                            /\ pc' = [pc EXCEPT ![p] = "client1"]
                            /\ sess' = sess
                       [] kind = "deepseek" -> AcquireSession(p, key)
    /\ UNCHANGED <<strategy, store, kind, cache, clients, fallback, responseStream>>
    /\ UNCHANGED <<nonChatVars, handlerVars>>

\* ClaudeProvider.getClient resolved for the first credential
ClaudeClient(p) ==
    /\ pc[p] = "client1"
    /\ clients' = clients \cup {entry[p].id}
    /\ AcquireSession(p, req[p])
    /\ UNCHANGED <<kind, cache, req, entry, fallback, responseStream, log>>
    /\ UNCHANGED <<entries, currentIndex, strategy, store, nonChatVars, handlerVars>>

\* ClaudeProvider.getClient resolved for the fallback credential
ClaudeFbClient(p) ==
    /\ pc[p] = "clientFb"
    /\ clients' = clients \cup {fallback[p].id}
    /\ pc' = [pc EXCEPT ![p] = "createFb"]
    /\ UNCHANGED <<kind, cache, req, entry, fallback, sess, responseStream, log>>
    /\ UNCHANGED <<entries, currentIndex, strategy, store, nonChatVars, handlerVars>>

\* the first createSession() settles (it is outside the try block)
CreateDone(p) ==
    /\ pc[p] = "create1"
    /\ \E ok \in BOOLEAN :
          IF ok
          THEN LET sid == [cred |-> entry[p].id, by |-> p, n |-> 1]
               IN  /\ cache' = [cache EXCEPT ![req[p]] = sid]
                   /\ sess' = [sess EXCEPT ![p] = sid]
                   /\ pc' = [pc EXCEPT ![p] = "chat1"]
                   /\ log' = [log EXCEPT ![p] = @ \o <<Ev("create", entry[p].id, "ok"),
                                                        Ev("set", entry[p].id, "ok")>>]
          ELSE /\ pc' = [pc EXCEPT ![p] = "failed"]
               /\ log' = [log EXCEPT ![p] = @ \o <<Ev("create", entry[p].id, "fail"),
                                                    Ev("throw", entry[p].id, "fail")>>]
               /\ UNCHANGED <<cache, sess>>
    /\ UNCHANGED <<kind, clients, req, entry, fallback, responseStream>>
    /\ UNCHANGED <<entries, currentIndex, strategy, store, nonChatVars, handlerVars>>

\* chat() returns { stream }: markSuccess on the credential that served
Serve(p, id, pre) ==
    /\ entries' = Marked(entries, id, "markSuccess")
    /\ store' = MarkSaved(entries, id, "markSuccess", store)
    /\ responseStream' = [responseStream EXCEPT ![p] = Len(ChatEvents(log[p])) + 1]
    /\ pc' = [pc EXCEPT ![p] = "returned"]
    /\ log' = [log EXCEPT ![p] = @ \o pre \o <<Ev("markSuccess", id, "ok")>>]
    /\ UNCHANGED <<currentIndex, fallback, cache, sess>>

\* catch (retryErr): markFailed, then the next credential if it is another one
Failover(p, pre, res) ==
    LET es1 == Marked(entries, entry[p].id, "markFailed")
        others == \E i \in DOMAIN es1 : IsActive(es1[i]) /\ es1[i].id # entry[p].id
    IN  /\ store' = MarkSaved(entries, entry[p].id, "markFailed", store)
        /\ \E o \in NextOutcomes(es1, currentIndex, strategy) :
              /\ entries' = AfterNext(es1, o.ref)
              /\ currentIndex' = o.ci
              /\ IF o.ref # 0 /\ o.id # entry[p].id
                 THEN /\ fallback' = [fallback EXCEPT ![p] = [ref |-> o.ref, id |-> o.id]]
                      /\ pc' = [pc EXCEPT ![p] =
                                  CASE kind = "qwen" -> "chatFb"
                                    [] kind = "claude" -> "clientFb"
                                    [] kind = "deepseek" -> "createFb"]
                      /\ log' = [log EXCEPT ![p] = @ \o pre \o
                                    <<Ev("markFailed", entry[p].id, res),
                                      Ev("failover", o.id, IF others THEN "others" ELSE "none")>>]
                 ELSE /\ pc' = [pc EXCEPT ![p] = "failed"]
                      /\ log' = [log EXCEPT ![p] = @ \o pre \o
                                    <<Ev("markFailed", entry[p].id, res),
                                      Ev("throw", o.id, IF others THEN "others" ELSE "none")>>]
                      /\ UNCHANGED fallback
        /\ UNCHANGED <<responseStream, cache, sess>>

\* catch, not auth-class: markFailed and rethrow
Rethrow(p, pre, res) ==
    /\ entries' = Marked(entries, entry[p].id, "markFailed")
    /\ store' = MarkSaved(entries, entry[p].id, "markFailed", store)
    /\ pc' = [pc EXCEPT ![p] = "failed"]
    /\ log' = [log EXCEPT ![p] = @ \o pre \o <<Ev("markFailed", entry[p].id, res),
                                                 Ev("rethrow", entry[p].id, res)>>]
    /\ UNCHANGED <<currentIndex, fallback, responseStream, cache, sess>>

\* auth-class error of the first call: drop the cached session, createSession() again
Invalidate(p, pre) ==
    /\ cache' = [cache EXCEPT ![req[p]] = NoSess]
    /\ pc' = [pc EXCEPT ![p] = "create2"]
    /\ log' = [log EXCEPT ![p] = @ \o pre \o <<Ev("del", entry[p].id, "ok")>>]
    /\ UNCHANGED <<entries, currentIndex, store, fallback, responseStream, sess>>

\* the first client.chat() settles
ChatDone(p) ==
    /\ pc[p] = "chat1"
    /\ \E res \in Outcomes :
          LET pre == <<Ev("chat", entry[p].id, res)>>
          IN  IF CallSucceeded(res) THEN Serve(p, entry[p].id, pre)
              ELSE IF IsAuthClass(res)
                   THEN IF HasSessions THEN Invalidate(p, pre) ELSE Failover(p, pre, res)
                   ELSE Rethrow(p, pre, res)
    /\ UNCHANGED <<strategy, kind, clients, req, entry, nonChatVars, handlerVars>>

\* the second createSession() settles (inside the inner try block)
RecreateDone(p) ==
    /\ pc[p] = "create2"
    /\ \E ok \in BOOLEAN :
          IF ok
          THEN LET sid == [cred |-> entry[p].id, by |-> p, n |-> 2]
               IN  /\ cache' = [cache EXCEPT ![req[p]] = sid]
                   /\ sess' = [sess EXCEPT ![p] = sid]
                   /\ pc' = [pc EXCEPT ![p] = "chat2"]
                   /\ log' = [log EXCEPT ![p] = @ \o <<Ev("create", entry[p].id, "ok"),
                                                        Ev("set", entry[p].id, "ok")>>]
                   /\ UNCHANGED <<entries, currentIndex, store, fallback, responseStream>>
          ELSE Failover(p, <<Ev("create", entry[p].id, "fail")>>, "fail")
    /\ UNCHANGED <<strategy, kind, clients, req, entry, nonChatVars, handlerVars>>

\* the retried client.chat() settles
RetryDone(p) ==
    /\ pc[p] = "chat2"
    /\ \E res \in Outcomes :
          LET pre == <<Ev("chat", entry[p].id, res)>>
          IN  IF CallSucceeded(res) THEN Serve(p, entry[p].id, pre)
              ELSE Failover(p, pre, res)
    /\ UNCHANGED <<strategy, kind, clients, req, entry, nonChatVars, handlerVars>>

\* the fallback client's createSession() settles
FbCreateDone(p) ==
    /\ pc[p] = "createFb"
    /\ \E ok \in BOOLEAN :
          IF ok
          THEN /\ sess' = [sess EXCEPT ![p] = [cred |-> fallback[p].id, by |-> p, n |-> 3]]
               /\ pc' = [pc EXCEPT ![p] = "chatFb"]
               /\ log' = [log EXCEPT ![p] = @ \o <<Ev("create", fallback[p].id, "ok")>>]
          ELSE /\ pc' = [pc EXCEPT ![p] = "failed"]
               /\ log' = [log EXCEPT ![p] = @ \o <<Ev("create", fallback[p].id, "fail"),
                                                    Ev("throw", fallback[p].id, "fail")>>]
               /\ UNCHANGED sess
    /\ UNCHANGED <<kind, cache, clients, req, entry, fallback, responseStream>>
    /\ UNCHANGED <<entries, currentIndex, strategy, store, nonChatVars, handlerVars>>

\* the fallback client's chat() settles
FbChatDone(p) ==
    /\ pc[p] = "chatFb"
    /\ \E res \in Outcomes :
          LET pre == <<Ev("chat", fallback[p].id, res)>>
          IN  IF CallSucceeded(res) THEN Serve(p, fallback[p].id, pre)
              ELSE /\ pc' = [pc EXCEPT ![p] = "failed"]
                   /\ log' = [log EXCEPT ![p] = @ \o pre \o
                                 <<Ev("throw", fallback[p].id, res)>>]
                   /\ UNCHANGED <<entries, currentIndex, store, fallback,
                                  responseStream, cache, sess>>
    /\ UNCHANGED <<strategy, kind, clients, req, entry, nonChatVars, handlerVars>>

\* ------------------------------- POST /v1/chat/completions, streaming branch
\* nodeStream.pipe(transform).pipe(res): the next fragment goes through the
\* converter, which writes at most one chunk for it
Pipe(p) ==
    /\ pc[p] = "returned"
    /\ sent[p] < StreamLen
    /\ sent' = [sent EXCEPT ![p] = @ + 1]
    /\ \E emit \in BOOLEAN :
          delivered' = [delivered EXCEPT ![p] =
                          IF emit THEN Append(@, [att |-> responseStream[p], idx |-> sent[p] + 1])
                          ELSE @]
    /\ UNCHANGED <<poolVars, chatVars, restVars>>

\* the stream ends: flush, res.end()
PipeEnd(p) ==
    /\ pc[p] = "returned"
    /\ sent[p] = StreamLen
    /\ pc' = [pc EXCEPT ![p] = "done"]
    /\ UNCHANGED <<poolVars, handlerVars, restVars>>
    /\ UNCHANGED <<kind, cache, clients, req, entry, fallback, sess, responseStream, log>>

ChatInit ==
    /\ kind \in Kinds
    /\ strategy \in Strategies
    /\ entries \in LoadedPools
    /\ currentIndex = 0
    /\ store = Saved(entries)
    /\ nextId = Len(entries)
    /\ ret = Other
    /\ rrHist = NoHist
    /\ fresh = TRUE
    /\ streak = [r \in Refs |-> 0]
    /\ ChatIdle
    /\ RestIdle

ChatNextStep ==
    \E p \in Chats :
        \/ \E key \in Keys : ChatStart(p, key)
        \/ ClaudeClient(p)
        \/ ClaudeFbClient(p)
        \/ CreateDone(p)
        \/ ChatDone(p)
        \/ RecreateDone(p)
        \/ RetryDone(p)
        \/ FbCreateDone(p)
        \/ FbChatDone(p)
        \/ Pipe(p)
        \/ PipeEnd(p)

SpecChat == ChatInit /\ [][ChatNextStep]_vars

\* ------------------------------------------------ claims about chat()
CountEv(l, ev) == Len(SelectSeq(l, LAMBDA e : e.ev = ev))
CallsWith(l, c) == Len(SelectSeq(l, LAMBDA e : e.ev = "chat" /\ e.cred = c))

\* position i of log l holds the first upstream call and it failed auth-class
FirstCallAuth(l, i) ==
    /\ l[i].ev = "chat"
    /\ l[i].res = "auth"
    /\ \A j \in 1..(i - 1) : l[j].ev # "chat"

\* C1: in every adapter, an auth-class failure of the first upstream call is
\* followed by: the cached session removed, one session created with the same
\* credential, that session stored, one more upstream call with the same
\* credential, and only then anything else; and a chat() makes at most two
\* upstream calls with one credential.
C1_InvalidateRecreateRetry ==
    \A p \in Chats :
        LET l == log[p]
        IN  /\ \A c \in IdSet : CallsWith(l, c) <= 2
            /\ \A i \in DOMAIN l :
                  FirstCallAuth(l, i) =>
                    /\ i + 1 <= Len(l) => l[i + 1].ev = "del"
                    /\ i + 2 <= Len(l) => l[i + 2].ev = "create" /\ l[i + 2].cred = l[i].cred
                    /\ (i + 3 <= Len(l) /\ l[i + 2].res = "ok") =>
                          l[i + 3].ev = "set" /\ l[i + 3].cred = l[i].cred
                    /\ (i + 4 <= Len(l) /\ l[i + 2].res = "ok") =>
                          l[i + 4].ev = "chat" /\ l[i + 4].cred = l[i].cred

\* C2: in an adapter that retries, when the retry has failed the credential is
\* marked failed once, the error propagates only if no other Active entry
\* existed at that moment, and otherwise one failover is made, with another
\* entry.
C2_FailoverWheneverOtherActive ==
    HasSessions =>
      \A p \in Chats :
        LET l == log[p]
        IN  /\ CountEv(l, "markFailed") <= 1
            /\ CountEv(l, "failover") <= 1
            /\ \A i \in DOMAIN l :
                  /\ l[i].ev = "failover" => l[i].cred # entry[p].id
                  /\ (l[i].ev = "throw" /\ l[i - 1].ev = "markFailed") => l[i].res = "none"

\* C3: what has been written to the client are fragments of the stream chat()
\* returned, the stream of its last upstream call, which succeeded; each
\* fragment at most once, in upstream order; and nothing is written before
\* chat() has returned.
C3_ServingStreamOnceInOrder ==
    \A p \in Chats :
        LET d == delivered[p]
            calls == ChatEvents(log[p])
        IN  \A i \in DOMAIN d :
              /\ pc[p] \in {"returned", "done"}
              /\ d[i].att = responseStream[p]
              /\ d[i].att = Len(calls)
              /\ calls[d[i].att].res = "ok"
              /\ d[i].idx \in 1..sent[p]
              /\ \A j \in 1..(i - 1) : d[j].idx < d[i].idx

\* a request served by the failover credential, after a failed first call and
\* a failed retry, with the whole stream delivered
C3_Witness ==
    \E p \in Chats :
        /\ pc[p] = "done"
        /\ Len(delivered[p]) = StreamLen
        /\ Len(ChatEvents(log[p])) = 3
        /\ fallback[p] # NoEntry

\* the position of the first client.chat() event in a chat's log, 0 if none
FirstChatAt(l) ==
    IF \E i \in DOMAIN l : l[i].ev = "chat"
    THEN CHOOSE i \in DOMAIN l : l[i].ev = "chat" /\ \A j \in 1..(i - 1) : l[j].ev # "chat"
    ELSE 0

FirstCallOther(l) == FirstChatAt(l) > 0 /\ l[FirstChatAt(l)].res = "other"

\* C17: when the first upstream call fails with an error that is not
\* auth-class, chat() marks the credential failed and rethrows that error: no
\* second call, no session created, no further next() (the cursor stays), and
\* the session cache is left as it was.
C17_NonAuthRethrown ==
    /\ [](\A p \in Chats :
            FirstCallOther(log[p]) =>
               LET l == log[p]
                   i == FirstChatAt(l)
               IN  /\ pc[p] = "failed"
                   /\ Len(l) = i + 2
                   /\ l[i + 1] = Ev("markFailed", entry[p].id, "other")
                   /\ l[i + 2] = Ev("rethrow", entry[p].id, "other")
                   /\ l[i].cred = entry[p].id
                   /\ CountEv(l, "next") = 1
                   /\ CountEv(l, "chat") = 1
                   /\ CountEv(l, "del") = 0
                   /\ fallback[p] = NoEntry)
    /\ [][\A p \in Chats :
            (~FirstCallOther(log[p]) /\ FirstCallOther(log'[p])) =>
               /\ cache' = cache
               /\ currentIndex' = currentIndex
               /\ sess' = sess
               /\ clients' = clients]_vars

\* a chat whose first call failed with a non-auth error while its session key
\* holds a cached session
C17_Witness ==
    \E p \in Chats :
        /\ FirstCallOther(log[p])
        /\ pc[p] = "failed"
        /\ cache[req[p]] # NoSess
        /\ kind = "deepseek"

IsMarkSuccessEv(e) == e.ev = "markSuccess"

\* C18: when chat() returns a stream, the credential whose upstream call
\* produced it (the first one, or the fallback after a failover) has had
\* markSuccess applied in that step (failCount 0, lastError cleared, Failed
\* back to Active), no other entry is written, and it is the one markSuccess
\* of the call.
C18_ServingCredentialMarked ==
    [][\A p \in Chats :
         (pc[p] # "returned" /\ pc'[p] = "returned") =>
            LET l == log'[p]
                calls == ChatEvents(l)
                last == calls[Len(calls)]
                marks == SelectSeq(l, IsMarkSuccessEv)
            IN  /\ Len(ChatEvents(log[p])) + 1 = Len(calls)
                /\ last.res = "ok"
                /\ last.cred = IF fallback[p] # NoEntry THEN fallback[p].id ELSE entry[p].id
                /\ marks = <<Ev("markSuccess", last.cred, "ok")>>
                /\ DOMAIN entries' = DOMAIN entries
                /\ \A i \in DOMAIN entries :
                      IF entries[i].id = last.cred
                      THEN /\ entries'[i].failCount = 0
                           /\ entries'[i].lastError = 0
                           /\ entries'[i].status =
                                 (IF entries[i].status = "failed" THEN "active"
                                  ELSE entries[i].status)
                           /\ entries'[i].id = entries[i].id
                      ELSE entries'[i] = entries[i]]_vars

\* one chat served by its first credential and another by its fallback
\* credential, whose failCount is 0 afterwards
C18_Witness ==
    \E p, q \in Chats :
        /\ pc[p] = "returned" /\ fallback[p] = NoEntry
        /\ pc[q] = "returned" /\ fallback[q] # NoEntry
        /\ \E i \in DOMAIN entries :
              entries[i].id = fallback[q].id /\ entries[i].failCount = 0

IsAuthFailure(e) == e.ev = "chat" /\ e.res = "auth"

\* no upstream call of any chat() has failed with an auth-class error so far
NoAuthError(ls) == \A p \in Chats : SelectSeq(ls[p], IsAuthFailure) = <<>>

\* C19: as long as no auth-class error occurs (and the adapter is not reset),
\* the handle cached for a session key stays the identical handle, a request
\* that finds a cached handle takes that handle, and a session is created
\* only by a request whose key has no cached handle.
C19_SessionReusedUntilInvalidated ==
    [][NoAuthError(log') =>
         /\ \A k \in Keys : cache[k] # NoSess => cache'[k] = cache[k]
         /\ \A p \in Chats :
               /\ (/\ HasSessions
                   /\ pc[p] \in {"idle", "client1"}
                   /\ pc'[p] \in {"chat1", "create1"}
                   /\ cache[req'[p]] # NoSess) =>
                      pc'[p] = "chat1" /\ sess'[p] = cache[req'[p]]
               /\ CountEv(log'[p], "create") > CountEv(log[p], "create") =>
                      cache[req[p]] = NoSess]_vars

\* ------------------------------------------------------------ RequestQueue
Min(a, b) == IF a < b THEN a ELSE b
Max(a, b) == IF a > b THEN a ELSE b

\* an age is only ever compared with windowMs
Aged(a, d) == Min(a + d, windowMs)
AgedAll(ts, d) == [i \in DOMAIN ts |-> Aged(ts[i], d)]

\* ts.filter((t) => now - t < windowMs)
InWindow(a) == a < windowMs
Recent(ts) == SelectSeq(ts, InWindow)

AtCapacityLate(n, m) == n > m

\* recentTs.length >= config.maxPerMinute
AtCapacity(n, m) == n >= m

\* oldestTs + windowMs - now + 100
WaitMs(oldest) == windowMs - oldest + slackMs

ArmedTimerNever(tm, oldest) == tm

\* if (!this.timers.has(providerId)) setTimeout(..., waitMs)
ArmedTimer(tm, oldest) == IF tm = NoTimer THEN WaitMs(oldest) ELSE tm

PushedFront(q, t) == <<t>> \o q

\* this.queues.get(providerId).push(...)
Pushed(q, t) == Append(q, t)

\* processQueue(providerId) on queue q, stamps ts, timer tm, counter pr:
\* the maps afterwards and the task whose action it started, if any
\* (m is the limit configured for the provider, 0 when it has none)
ProcessQueueAt(q, ts, tm, pr, m) ==
    IF q = <<>>
    THEN [queue |-> q, timestamps |-> ts, timer |-> tm, processing |-> pr,
          run |-> 0, tracked |-> FALSE]
    ELSE IF m <= 0
    THEN [queue |-> Tail(q), timestamps |-> ts, timer |-> tm, processing |-> pr,
          run |-> Head(q), tracked |-> FALSE]
    ELSE LET recentTs == Recent(ts)
         IN  IF AtCapacity(Len(recentTs), m)
             THEN [queue |-> q, timestamps |-> recentTs,
                   timer |-> ArmedTimer(tm, recentTs[1]),
                   processing |-> pr, run |-> 0, tracked |-> FALSE]
             ELSE [queue |-> Tail(q), timestamps |-> Append(recentTs, 0), timer |-> tm,
                   processing |-> pr + 1, run |-> Head(q), tracked |-> TRUE]

ProcessQueue(q, ts, tm, pr) == ProcessQueueAt(q, ts, tm, pr, maxPerMinute)

\* task.execute() was called for task u in this step
Started(tk, u, tracked) ==
    IF u = 0 THEN tk
    ELSE [tk EXCEPT ![u] = IF tracked THEN "running" ELSE "untracked"]

\* the maps and the histories after a processQueue call
Pumped(q, tm, pr, tk) ==
    LET r == ProcessQueue(q, timestamps, tm, pr)
    IN  /\ queue' = r.queue
        /\ timestamps' = r.timestamps
        /\ timer' = r.timer
        /\ processing' = r.processing
        /\ started' = IF r.run = 0 THEN started ELSE Append(started, r.run)
        /\ startAges' = IF r.run = 0 THEN startAges ELSE Append(startAges, 0)
        /\ task' = Started(tk, r.run, r.tracked)

UnlimitedNever(m) == FALSE

\* if (!config || config.maxPerMinute <= 0)
Unlimited(m) == m <= 0

\* enqueue(providerId, task)
Enqueue ==
    /\ enq < MaxTasks
    /\ enq' = enq + 1
    /\ burst' = IF clockMoved THEN burst ELSE burst + 1
    /\ future' = [future EXCEPT ![enq + 1] = "pending"]
    /\ IF Unlimited(maxPerMinute)
       THEN /\ task' = Started(task, enq + 1, FALSE)
            /\ started' = Append(started, enq + 1)
            /\ startAges' = Append(startAges, 0)
            /\ UNCHANGED <<queue, timestamps, timer, processing>>
       ELSE Pumped(Pushed(queue, enq + 1), timer, processing,
                   [task EXCEPT ![enq + 1] = "queued"])
    /\ UNCHANGED <<maxPerMinute, clockMoved, nonQueueVars>>

SettledAlwaysResolved(ok) == "resolved"

\* .then(task.resolve).catch(task.reject)
Settled(ok) == IF ok THEN "resolved" ELSE "rejected"

\* an admitted action settles: resolve or reject, then the finally block
Settle(t) ==
    /\ task[t] = "running"
    /\ \E ok \in BOOLEAN :
          /\ future' = [future EXCEPT ![t] = Settled(ok)]
          /\ Pumped(queue, timer, Max(0, (IF processing = 0 THEN 1 ELSE processing) - 1),
                    [task EXCEPT ![t] = IF ok THEN "ok" ELSE "err"])
    /\ UNCHANGED <<maxPerMinute, enq, burst, clockMoved, nonQueueVars>>

\* an action started outside the rate window settles: no finally block
SettleUntracked(t) ==
    /\ task[t] = "untracked"
    /\ \E ok \in BOOLEAN :
          /\ future' = [future EXCEPT ![t] = Settled(ok)]
          /\ task' = [task EXCEPT ![t] = IF ok THEN "ok" ELSE "err"]
    /\ UNCHANGED <<maxPerMinute, queue, processing, timestamps, timer, enq,
                   started, startAges, burst, clockMoved, nonQueueVars>>

\* the deferral timer fires: timers.delete, processQueue
TimerFires ==
    /\ timer = 0
    /\ Pumped(queue, NoTimer, processing, task)
    /\ UNCHANGED <<maxPerMinute, enq, future, burst, clockMoved,
                   nonQueueVars>>

\* how far the clock may move next: a plain step, up to the timer's deadline,
\* or up to the moment one of the stamps leaves the window
ClockMoves ==
    {d \in {ClockStep, timer} \cup
           {windowMs - timestamps[i] : i \in DOMAIN timestamps} : d > 0}

\* Date.now() moves on by d ms
Tick ==
    /\ \E d \in ClockMoves :
          /\ timestamps' = AgedAll(timestamps, d)
          /\ startAges' = AgedAll(startAges, d)
          /\ timer' = IF timer = NoTimer THEN NoTimer ELSE Max(0, timer - d)
    /\ clockMoved' = TRUE
    /\ UNCHANGED <<maxPerMinute, queue, processing, enq, task, future, started, burst,
                   nonQueueVars>>

\* a pool and an adapter nobody has used: the queue is looked at on its own
PoolIdle ==
    /\ entries = <<>>
    /\ currentIndex = 0
    /\ strategy = "round-robin"
    /\ store = NoFile
    /\ nextId = 0
    /\ ret = Other
    /\ rrHist = NoHist
    /\ fresh = TRUE
    /\ streak = [r \in Refs |-> 0]
    /\ kind = "deepseek"

\* a RequestQueue whose limit was set once, before any enqueue call
QueueInit ==
    /\ maxPerMinute \in 0..MaxLimit
    /\ QueueIdle
    /\ ConvIdle
    /\ ParserIdle
    /\ PoolIdle
    /\ ChatIdle
    /\ RefIdle
    /\ ProvIdle
    /\ SanIdle
    /\ LoadIdle
    /\ ClaudeConvIdle
    /\ RouteIdle

QueueNextStep ==
    \/ Enqueue
    \/ \E t \in Tasks : Settle(t)
    \/ \E t \in Tasks : SettleUntracked(t)
    \/ TimerFires
    \/ Tick

SpecQueue == QueueInit /\ [][QueueNextStep]_vars

\* every admitted action settles, every armed timer fires, the clock moves on
SpecQueueFair ==
    /\ SpecQueue
    /\ \A t \in Tasks : WF_vars(Settle(t))
    /\ \A t \in Tasks : WF_vars(SettleUntracked(t))
    /\ WF_vars(TimerFires)
    /\ WF_vars(Tick)

\* ------------------------------------------------ claims about the queue
Occurrences(q, t) == Cardinality({i \in DOMAIN q : q[i] = t})
FutureSettled(t) == future[t] \in {"resolved", "rejected"}

\* what holds of a task at every moment under a positive limit: its action
\* was started at most once, and once iff it left the queue; its future is
\* rejected only by its own action, and settles as its action did
TaskSafety(t) ==
    /\ Occurrences(started, t) <= 1
    /\ Occurrences(started, t) + Occurrences(queue, t) = (IF t <= enq THEN 1 ELSE 0)
    /\ future[t] = "rejected" <=> task[t] = "err"
    /\ future[t] = "resolved" <=> task[t] = "ok"

\* every enqueue call made has had its action started and its future settled
AllServed ==
    /\ queue = <<>>
    /\ \A t \in 1..enq : Occurrences(started, t) = 1 /\ FutureSettled(t)

\* C7: with a fixed positive limit, settling actions and firing timers, every
\* enqueued task's action is eventually started, exactly once, and its future
\* settles as the action did; nothing is rejected by rate limiting and
\* nothing stays queued: once the enqueue calls of a run have been made, all
\* of them end up served.
C7_EveryTaskStartedAndSettled ==
    /\ [] (maxPerMinute > 0 => \A t \in Tasks : TaskSafety(t))
    /\ <>[] (maxPerMinute > 0 => AllServed)

\* a task that waited for the deferral timer and for an earlier action to
\* settle has been started and has settled
C7_Witness ==
    /\ maxPerMinute = 1
    /\ enq = MaxTasks
    /\ queue = <<>>
    /\ \A t \in Tasks : FutureSettled(t) /\ Occurrences(started, t) = 1
    /\ \E t \in Tasks : future[t] = "rejected"

\* C8: with a fixed positive limit, actions are started in the order of
\* their enqueue calls.
C8_StartedInEnqueueOrder ==
    maxPerMinute > 0 =>
      \A i, j \in DOMAIN started : i < j => started[i] < started[j]

\* all tasks started, some of them deferred by the timer, others by a settle
C8_Witness ==
    /\ maxPerMinute = 2
    /\ clockMoved
    /\ burst = MaxTasks
    /\ Len(started) = MaxTasks

\* at most M starts in the last 60 s: the start M places before any start is
\* at least 60 s older than it
SlidingWindow ==
    \A i \in DOMAIN startAges :
        i > maxPerMinute => startAges[i - maxPerMinute] >= windowMs

\* C9: with a fixed positive limit M, at most M actions are started in any
\* 60 s window; five back-to-back enqueue calls with M = 3 start three actions
\* at once, the other two only when the first admission is 60 s old, and all
\* five futures settle in the end.
C9_AtMostMPerWindow ==
    /\ [] (maxPerMinute > 0 => SlidingWindow)
    /\ [] ((maxPerMinute = 3 /\ burst = 5 /\ ~clockMoved) => Len(started) = 3)
    /\ (maxPerMinute = 3 /\ burst = 5) ~> (\A t \in 1..5 : FutureSettled(t))

\* the five-call burst under M = 3, all five started and resolved
C9_Witness ==
    /\ maxPerMinute = 3
    /\ burst = 5
    /\ Len(started) = 5
    /\ \A t \in 1..5 : future[t] = "resolved"

\* ------------------------------------------- createStreamConverter (DeepSeek)
\* what isThinkingChunk(data) answers: true, false, or null
Hints == {"thinking", "content", "none"}

\* what extractContent(data) hands back: plain text, text ending with the
\* end-of-thinking marker, text with the marker in its middle, text with only
\* whitespace after the marker, ""
Bodies == {"plain", "marker", "markerTail", "markerBlank", "empty"}

\* rawContent.includes("<｜end▁of▁thinking｜>")
HasMarker(body) == body \in {"marker", "markerTail", "markerBlank"}

\* a line of the upstream: the [DONE] frame, a data frame that is not JSON,
\* or a JSON data frame
Lines ==
    {[kind |-> "done", hint |-> "none", body |-> "empty"],
     [kind |-> "bad", hint |-> "none", body |-> "empty"]}
    \cup {[kind |-> "json", hint |-> h, body |-> b] : h \in Hints, b \in Bodies}

Chunk(type, src) == [type |-> type, src |-> src]

\* lines.pop(): the part after the last newline stays in the buffer
Complete == IF lastLineOpen THEN Len(upstream) - 1 ELSE Len(upstream)

\* sanitize(text, isReasoning) !== null, for the texts modelled
Sanitized(body) == body = "plain"

\* a marker frame that leaves the phase as it is
AtMarkerForgets(i) ==
    /\ UNCHANGED <<thinkingPhase, thinkingEnded>>
    /\ IF upstream[i].body = "markerTail"
       THEN /\ hasAnyContent' = TRUE
            /\ out' = Append(out, Chunk("content", i))
       ELSE UNCHANGED <<hasAnyContent, out>>

\* a JSON frame whose text holds the end-of-thinking marker
AtMarker(i) ==
    /\ thinkingPhase' = FALSE
    /\ thinkingEnded' = TRUE
    /\ IF upstream[i].body = "markerTail"
       THEN /\ hasAnyContent' = TRUE
            /\ out' = Append(out, Chunk("content", i))
       ELSE UNCHANGED <<hasAnyContent, out>>

\* any other JSON frame with text: classify, sanitize, push
Classified(i) ==
    LET f == upstream[i]
        isReasoning == IF f.hint # "none" THEN f.hint = "thinking"
                       ELSE thinkingPhase /\ ~thinkingEnded
        switch == f.hint = "content" /\ thinkingPhase
    IN  /\ thinkingPhase' = IF switch THEN FALSE ELSE thinkingPhase
        /\ thinkingEnded' = IF switch THEN TRUE ELSE thinkingEnded
        /\ IF ~Sanitized(f.body) \/ (stripReasoning /\ isReasoning)
           THEN UNCHANGED <<hasAnyContent, out>>
           ELSE /\ hasAnyContent' = (hasAnyContent \/ ~isReasoning)
                /\ out' = Append(out, Chunk(IF isReasoning THEN "reasoning" ELSE "content", i))

\* transform(chunk): the next complete line of the buffer
Transform ==
    /\ ~flushed
    /\ consumed < Complete
    /\ consumed' = consumed + 1
    /\ LET i == consumed + 1
       IN  CASE upstream[i].kind = "done" ->
                  /\ out' = Append(out, Chunk("DONE", i))
                  /\ UNCHANGED <<thinkingPhase, thinkingEnded, hasAnyContent>>
             [] upstream[i].kind = "bad" ->
                  UNCHANGED <<thinkingPhase, thinkingEnded, hasAnyContent, out>>
             [] upstream[i].kind = "json" ->
                  IF HasMarker(upstream[i].body)
                  THEN AtMarker(i) ELSE Classified(i)
    /\ UNCHANGED <<upstream, lastLineOpen, reasoner, stripReasoning, flushed, nonConvVars>>

\* flush(): the stop chunk, then the sentinel
Flush ==
    /\ ~flushed
    /\ consumed = Complete
    /\ flushed' = TRUE
    /\ out' = out \o <<Chunk("stop", 0), Chunk("DONE", 0)>>
    /\ UNCHANGED <<upstream, lastLineOpen, consumed, reasoner, stripReasoning,
                   thinkingPhase, thinkingEnded, hasAnyContent, nonConvVars>>

\* createStreamConverter(model, options) and the upstream it is piped from
ConvInit ==
    /\ upstream \in UNION {[1..n -> Lines] : n \in 0..MaxLines}
    /\ lastLineOpen \in {b \in BOOLEAN : b => upstream # <<>>}
    /\ consumed = 0
    /\ reasoner \in BOOLEAN
    /\ stripReasoning \in BOOLEAN
    /\ thinkingPhase = reasoner
    /\ thinkingEnded = FALSE
    /\ hasAnyContent = FALSE
    /\ out = <<>>
    /\ flushed = FALSE
    /\ QueueIdle /\ maxPerMinute = 0
    /\ ParserIdle
    /\ PoolIdle
    /\ ChatIdle
    /\ RefIdle
    /\ ProvIdle
    /\ SanIdle
    /\ LoadIdle
    /\ ClaudeConvIdle
    /\ RouteIdle

ConvNextStep == Transform \/ Flush

SpecConv == ConvInit /\ [][ConvNextStep]_vars

\* C10: the outbound stream of the DeepSeek converter holds a stop chunk, and
\* no [DONE] sentinel comes before it, whether or not the upstream sent its own
\* [DONE] frame.
C10_StopBeforeDone ==
    /\ flushed => \E i \in DOMAIN out : out[i].type = "stop"
    /\ \A j \in DOMAIN out :
          out[j].type = "DONE" => \E i \in 1..(j - 1) : out[i].type = "stop"

\* ------------------------------------ the converter as a function of its input
\* isReasoning for one frame (stream-converter.ts 200-214)
IsReasoning(hint, phase, ended) ==
    IF hint # "none" THEN hint = "thinking" ELSE phase /\ ~ended

DroppedAll(strip, isReasoning) == strip

\* if (options.stripReasoning && isReasoning) continue
Dropped(strip, isReasoning) == strip /\ isReasoning

\* one line through the loop body of transform: st holds thinkingPhase,
\* thinkingEnded and what was pushed so far
LineStep(st, f, i, strip) ==
    CASE f.kind = "done" -> [st EXCEPT !.out = Append(@, Chunk("DONE", i))]
      [] f.kind = "bad" -> st
      [] f.kind = "json" /\ HasMarker(f.body) ->
           [phase |-> FALSE, ended |-> TRUE,
            out |-> IF f.body = "markerTail" THEN Append(st.out, Chunk("content", i))
                    ELSE st.out]
      [] OTHER ->
           LET r == IsReasoning(f.hint, st.phase, st.ended)
               switch == f.hint = "content" /\ st.phase
           IN  [phase |-> IF switch THEN FALSE ELSE st.phase,
                ended |-> IF switch THEN TRUE ELSE st.ended,
                out |-> IF ~Sanitized(f.body) \/ Dropped(strip, r) THEN st.out
                        ELSE Append(st.out, Chunk(IF r THEN "reasoning" ELSE "content", i))]

RECURSIVE LinesDone(_, _, _, _)
\* the first n lines of ls through transform, from a new converter
LinesDone(ls, n, isReasoner, strip) ==
    IF n = 0 THEN [phase |-> isReasoner, ended |-> FALSE, out |-> <<>>]
    ELSE LineStep(LinesDone(ls, n - 1, isReasoner, strip), ls[n], n, strip)

\* everything the converter pushes for upstream ls with k complete lines
Converted(ls, k, isReasoner, strip) ==
    LinesDone(ls, k, isReasoner, strip).out \o <<Chunk("stop", 0), Chunk("DONE", 0)>>

IsText(c) == c.type \in {"reasoning", "content"}
IsContent(c) == c.type = "content"
IsReasoningChunk(c) == c.type = "reasoning"

\* ------------------------------------------- claims about the converter
\* the upstream of C11: frames without discriminator, all plain but one, which
\* has the end-of-thinking marker in its middle
MarkerAt(k) ==
    /\ k \in DOMAIN upstream
    /\ \A i \in DOMAIN upstream :
          /\ upstream[i].kind = "json"
          /\ upstream[i].hint = "none"
          /\ upstream[i].body = (IF i = k THEN "markerTail" ELSE "plain")

\* what C11 says is emitted for such an upstream
ExpectedAround(k) ==
    [i \in 1..(IF stripReasoning THEN 0 ELSE k) |-> Chunk("reasoning", i)]
    \o [i \in 1..(Len(upstream) - k + 1) |-> Chunk("content", k + i - 1)]

\* C11: reasoner model, no discriminators, the marker in the middle of
\* fragment k: the fragments before k are reasoning, the text of k before the
\* marker is reasoning too (nothing when stripReasoning is on), the text after
\* the marker and every later fragment are content.
C11_MarkerSplitsFragment ==
    \A k \in 1..MaxLines :
        (flushed /\ reasoner /\ ~lastLineOpen /\ MarkerAt(k)) =>
            SelectSeq(out, IsText) = ExpectedAround(k)

\* C12: with stripReasoning on the converter pushes no reasoning chunk, and
\* its content chunks are those of a run with stripReasoning off on the same
\* upstream; the stream pushed is the function Converted of the upstream.
C12_StripKeepsContent ==
    /\ flushed => out = Converted(upstream, Complete, reasoner, stripReasoning)
    /\ LET on == Converted(upstream, Complete, reasoner, TRUE)
           off == Converted(upstream, Complete, reasoner, FALSE)
       IN  /\ SelectSeq(on, IsReasoningChunk) = <<>>
           /\ SelectSeq(on, IsContent) = SelectSeq(off, IsContent)

\* a run with stripReasoning on that dropped a reasoning fragment and kept the
\* content fragment after the switch
C12_Witness ==
    /\ flushed
    /\ stripReasoning
    /\ SelectSeq(out, IsContent) # <<>>
    /\ SelectSeq(Converted(upstream, Complete, reasoner, FALSE), IsReasoningChunk) # <<>>

\* ------------------------------------------------- tool-call-parser.ts: texts
\* A text is a sequence of characters. The tag name tool_call is written tc,
\* an attribute name="a" is the one character Na, id="1" is I1, and j stands
\* for a JSON value.
OpenTag == <<"<", "t", "c">>
CloseTagStart == <<"<", "/", "t", "c">>
CloseTag == <<"<", "/", "t", "c", ">">>

NameChars == {"Na", "Nb"}
IdChars == {"I1"}

At(s, i) == IF i \in DOMAIN s THEN s[i] ELSE ""

\* s has the characters of w at position i
HasAt(s, i, w) == \A k \in DOMAIN w : At(s, i + k - 1) = w[k]

\* "abc".startsWith(s)
IsPrefixOf(s, w) == Len(s) <= Len(w) /\ \A k \in DOMAIN s : s[k] = w[k]

\* s.includes(w)
Includes(s, w) == \E i \in DOMAIN s : HasAt(s, i, w)

RECURSIVE SkipWs(_, _)
\* \s* from position j: the first position that holds no whitespace
SkipWs(s, j) == IF At(s, j) = " " THEN SkipWs(s, j + 1) ELSE j

RECURSIVE FindClose(_, _)
\* ([\s\S]*?)<\/tool_call>: the first closing tag at or after position j
FindClose(s, j) ==
    IF j > Len(s) THEN 0
    ELSE IF HasAt(s, j, CloseTag) THEN j
    ELSE FindClose(s, j + 1)

RECURSIVE TrimStart(_)
TrimStart(s) == IF s # <<>> /\ Head(s) = " " THEN TrimStart(Tail(s)) ELSE s

RECURSIVE TrimEnd(_)
TrimEnd(s) ==
    IF s # <<>> /\ s[Len(s)] = " " THEN TrimEnd(SubSeq(s, 1, Len(s) - 1)) ELSE s

\* String.prototype.trim
Trim(s) == TrimEnd(TrimStart(s))

NoMatch == [ok |-> FALSE, end |-> 0, name |-> "", id |-> "", body |-> <<>>]

\* (?:id=..\s+)? is taken at position a: an id, whitespace and then the name
IdFirst(s, a) ==
    /\ At(s, a) \in IdChars
    /\ SkipWs(s, a + 1) > a + 1
    /\ At(s, SkipWs(s, a + 1)) \in NameChars

\* where name=.. has to stand when the attributes start at position a
NamePos(s, a) == IF IdFirst(s, a) THEN SkipWs(s, a + 1) ELSE a

\* (?:id=..\s*)? is taken after the name at position n
IdLast(s, n) == At(s, SkipWs(s, n + 1)) \in IdChars

\* where > has to stand when the name is at position n
ClosePos(s, n) ==
    IF IdLast(s, n) THEN SkipWs(s, SkipWs(s, n + 1) + 1) ELSE SkipWs(s, n + 1)

\* match[1] || match[3], "" when the tag has no id
IdOf(s, a, n) ==
    IF IdFirst(s, a) THEN s[a]
    ELSE IF IdLast(s, n) THEN s[SkipWs(s, n + 1)] ELSE ""

\* the match with attributes from a, name at n, > at c, closing tag at k
MatchWith(s, i, a, n, c, k) ==
    IF /\ HasAt(s, i, OpenTag)
       /\ a > i + 3
       /\ At(s, n) \in NameChars
       /\ At(s, c) = ">"
       /\ k # 0
    THEN [ok |-> TRUE, end |-> k + Len(CloseTag) - 1, name |-> s[n],
          id |-> IdOf(s, a, n), body |-> SubSeq(s, c + 1, k - 1)]
    ELSE NoMatch

MatchNamed(s, i, a, n) ==
    MatchWith(s, i, a, n, ClosePos(s, n), FindClose(s, ClosePos(s, n) + 1))

\* tagRegex matched at position i of s, or NoMatch
MatchAt(s, i) == MatchNamed(s, i, SkipWs(s, i + 3), NamePos(s, SkipWs(s, i + 3)))

\* JSON.parse(argsStr) does not throw
ValidJson(argsStr) == argsStr = <<"j">>

\* what JSON.parse(call.function.arguments) would make of the arguments
ParsesAsJson(arguments) == arguments.wrapped \/ ValidJson(arguments.str)

WrappedNever(argsStr) == FALSE

\* catch: validArgs = JSON.stringify({ raw: argsStr })
Wrapped(argsStr) == ~ValidJson(argsStr)

\* (match[4] || "{}").trim(), then JSON.parse or the raw wrapper
Arguments(body) ==
    LET argsStr == IF body = <<>> THEN <<"j">> ELSE Trim(body)
    IN  [wrapped |-> Wrapped(argsStr), str |-> argsStr]

\* the ToolCall pushed for a match; id "" stands for a generated call_... id
ToolCall(mt) == [name |-> mt.name, id |-> mt.id, arguments |-> Arguments(mt.body)]

RECURSIVE Scan(_, _)
\* the exec loop and text.replace(tagRegex, "") from position i on
Scan(s, i) ==
    IF i > Len(s) THEN [toolCalls |-> <<>>, rest |-> <<>>]
    ELSE LET mt == MatchAt(s, i)
         IN  IF mt.ok
             THEN LET r == Scan(s, mt.end + 1)
                  IN  [toolCalls |-> <<ToolCall(mt)>> \o r.toolCalls, rest |-> r.rest]
             ELSE LET r == Scan(s, i + 1)
                  IN  [toolCalls |-> r.toolCalls, rest |-> <<s[i]>> \o r.rest]

\* parseToolCalls(text)
parseToolCalls(s) ==
    LET r == Scan(s, 1)
    IN  [toolCalls |-> r.toolCalls,
         textContent |-> IF r.toolCalls # <<>> THEN Trim(r.rest) ELSE s]

\* ------------------------------------- createStreamToolCallParser: feed, flush
FeedFromScratch(buf, tag) ==
    [tagBuffer |-> <<>>, inTag |-> FALSE, pendingText |-> <<>>, completedCalls |-> <<>>]

\* feed(chunk) starts from the closure's tagBuffer and inTag, with an empty
\* pendingText and no completedCalls
FeedFrom(buf, tag) ==
    [tagBuffer |-> buf, inTag |-> tag, pendingText |-> <<>>, completedCalls |-> <<>>]

AsTextLost(st, buf) ==
    [st EXCEPT !.tagBuffer = <<>>, !.inTag = FALSE]

\* pendingText += tagBuffer; tagBuffer = ""; inTag = false
AsText(st, buf) ==
    [st EXCEPT !.pendingText = @ \o buf, !.tagBuffer = <<>>, !.inTag = FALSE]

\* the buffer handed to parseToolCalls: its calls and leftover text, or the
\* buffer itself as text when it holds no call
Released(st, buf) ==
    LET parsed == parseToolCalls(buf)
    IN  IF parsed.toolCalls # <<>>
        THEN [st EXCEPT !.completedCalls = @ \o parsed.toolCalls,
                        !.pendingText = @ \o parsed.textContent,
                        !.tagBuffer = <<>>, !.inTag = FALSE]
        ELSE AsText(st, buf)

\* the loop body of feed for one character
FeedChar(st, ch) ==
    IF ~st.inTag
    THEN IF ch = "<" THEN [st EXCEPT !.inTag = TRUE, !.tagBuffer = <<"<">>]
         ELSE [st EXCEPT !.pendingText = Append(@, ch)]
    ELSE LET buf == Append(st.tagBuffer, ch)
             keep == [st EXCEPT !.tagBuffer = buf]
         IN  IF Len(buf) <= Len(OpenTag)
             THEN IF ~IsPrefixOf(buf, OpenTag) /\ ~IsPrefixOf(buf, CloseTagStart)
                  THEN AsText(st, buf) ELSE keep
             ELSE IF HasAt(buf, 1, CloseTagStart)
             THEN IF ch = ">" THEN AsText(st, buf) ELSE keep
             ELSE IF HasAt(buf, 1, OpenTag)
             THEN IF Includes(buf, CloseTag) THEN Released(st, buf) ELSE keep
             ELSE AsText(st, buf)

RECURSIVE FeedChars(_, _)
\* the for loop of feed over chunk
FeedChars(st, chunk) ==
    IF chunk = <<>> THEN st ELSE FeedChars(FeedChar(st, Head(chunk)), Tail(chunk))

\* flush() on a parser in state st
Flushed(st) ==
    IF st.tagBuffer # <<>>
    THEN Released([st EXCEPT !.pendingText = <<>>, !.completedCalls = <<>>], st.tagBuffer)
    ELSE [st EXCEPT !.pendingText = <<>>, !.completedCalls = <<>>]

\* feed(chunk) with the next n characters of the text
Feed(n) ==
    /\ ~drained
    /\ fed + n <= Len(text)
    /\ LET r == FeedChars(FeedFrom(tagBuffer, inTag), SubSeq(text, fed + 1, fed + n))
       IN  /\ tagBuffer' = r.tagBuffer
           /\ inTag' = r.inTag
           /\ pendingOut' = pendingOut \o r.pendingText
           /\ completed' = completed \o r.completedCalls
           /\ cutInTag' = (cutInTag \/ (fed + n < Len(text) /\ Len(r.tagBuffer) > Len(OpenTag)))
    /\ fed' = fed + n
    /\ UNCHANGED <<text, drained, pieces, nonParserVars>>

\* flush() at the end of the stream
ParserFlush ==
    /\ ~drained
    /\ fed = Len(text)
    /\ LET r == Flushed(FeedFrom(tagBuffer, inTag))
       IN  /\ tagBuffer' = r.tagBuffer
           /\ inTag' = r.inTag
           /\ pendingOut' = pendingOut \o r.pendingText
           /\ completed' = completed \o r.completedCalls
    /\ drained' = TRUE
    /\ UNCHANGED <<text, fed, pieces, cutInTag, nonParserVars>>

\* the pieces texts are made of: a plain character, whitespace, a lone "<",
\* a "/", the start of the tag name, an HTML tag, and two well-formed
\* tool_call tags
PlainSegments == {<<"x">>, <<" ">>, <<"<">>, <<"/">>, <<"t">>, <<"<", "b", ">">>}

ToolCallSegments ==
    {<<"<", "t", "c", " ", "Na", ">", "j", "<", "/", "t", "c", ">">>,
     <<"<", "t", "c", " ", "I1", " ", "Nb", ">", "x", "<", "/", "t", "c", ">">>}

RECURSIVE Flatten(_)
Flatten(ss) == IF ss = <<>> THEN <<>> ELSE Head(ss) \o Flatten(Tail(ss))

Segments == PlainSegments \cup ToolCallSegments

\* a new parser and the text that is going to be fed to it
ParserInit ==
    /\ pieces \in UNION {[1..n -> Segments] : n \in 0..MaxSegs}
    /\ text = Flatten(pieces)
    /\ cutInTag = FALSE
    /\ fed = 0
    /\ tagBuffer = <<>>
    /\ inTag = FALSE
    /\ pendingOut = <<>>
    /\ completed = <<>>
    /\ drained = FALSE
    /\ QueueIdle /\ maxPerMinute = 0
    /\ ConvIdle
    /\ PoolIdle
    /\ ChatIdle
    /\ RefIdle
    /\ ProvIdle
    /\ SanIdle
    /\ LoadIdle
    /\ ClaudeConvIdle
    /\ RouteIdle

ParserNextStep ==
    \/ \E n \in 1..(MaxSegs * 14) : Feed(n)
    \/ ParserFlush

SpecParser == ParserInit /\ [][ParserNextStep]_vars

\* the text fed in one feed() call, then flush(): calls and text
OneShot(s) ==
    LET a == FeedChars(FeedFrom(<<>>, FALSE), s)
        b == Flushed(FeedFrom(a.tagBuffer, a.inTag))
    IN  [toolCalls |-> a.completedCalls \o b.completedCalls,
         pendingText |-> a.pendingText \o b.pendingText]

\* ------------------------------------------- claims about the tool-call parser
\* C13: after flush(), the calls the streaming parser completed are the calls
\* parseToolCalls extracts from the whole text, however the text was cut into
\* feed() chunks.
C13_StreamEqualsWholeText ==
    drained => completed = parseToolCalls(text).toolCalls

\* C14: after flush(), the completed calls and the joined pendingText are
\* those of feeding the whole text in a single feed() call, however the text
\* was cut into feed() chunks.
C14_ChunkingIndependent ==
    drained => /\ completed = OneShot(text).toolCalls
               /\ pendingOut = OneShot(text).pendingText

\* a text with a call, cut inside the tool_call tag, fed and flushed
C14_Witness ==
    /\ drained
    /\ cutInTag
    /\ completed # <<>>

IsToolCallSegment(seg) == seg \in ToolCallSegments
IsPlainSegment(seg) == seg \in PlainSegments

\* what the two tool_call tags of ToolCallSegments say: the name, the id when
\* given, whether ARGS is JSON, ARGS
TagSays(seg) ==
    IF At(seg, 5) = "Na"
    THEN [name |-> "Na", id |-> "", arguments |-> [wrapped |-> FALSE, str |-> <<"j">>]]
    ELSE [name |-> "Nb", id |-> "I1", arguments |-> [wrapped |-> TRUE, str |-> <<"x">>]]

TagsOf(ps) ==
    LET tags == SelectSeq(ps, IsToolCallSegment)
    IN  [i \in DOMAIN tags |-> TagSays(tags[i])]

\* C15: parseToolCalls on a text with k well-formed tags returns k calls in
\* order, with the tag's name, its id when given, and arguments that parse as
\* JSON (ARGS itself, or ARGS wrapped under raw); the returned text is the
\* surrounding text (trimmed) without the tags; a text without a tag comes
\* back unchanged, with no call.
C15_WholeTextExtraction ==
    LET r == parseToolCalls(text)
        k == Len(SelectSeq(pieces, IsToolCallSegment))
    IN  /\ r.toolCalls = TagsOf(pieces)
        /\ \A i \in DOMAIN r.toolCalls : ParsesAsJson(r.toolCalls[i].arguments)
        /\ r.textContent = (IF k = 0 THEN text
                            ELSE Trim(Flatten(SelectSeq(pieces, IsPlainSegment))))

\* a text with two tags, one with an id and ARGS that is no JSON, between
\* plain text
C15_Witness ==
    /\ Len(pieces) = 3
    /\ Len(SelectSeq(pieces, IsToolCallSegment)) = 2
    /\ pieces[1] # pieces[3]
    /\ pieces[2] = <<" ">>
    /\ Len(parseToolCalls(text).toolCalls) = 2

\* C16: for a text without tool_call tag the streaming parser completes no
\* call, and the pendingText of all feed() calls and of flush(), joined, is
\* the text.
C16_PlainTextPreserved ==
    (\A i \in DOMAIN pieces : IsPlainSegment(pieces[i])) =>
        /\ completed = <<>>
        /\ drained => pendingOut = text

\* "<t" was buffered as a possible tag start and came out as text
C16_Witness ==
    /\ drained
    /\ pieces = << <<"<">>, <<"t">>, <<"<", "b", ">">> >>
    /\ pendingOut = text

\* ------------------------- provider registry, POST /v1/chat/completions routing
\* model ids, cut into the pieces the adapters' prefixes are made of
ModelIds ==
    {<<"deepseek", "-", "chat">>, <<"deepseek", "-", "reasoner">>, <<"deepseek">>,
     <<"claude", "-", "3">>, <<"qwen", "-", "max">>, <<"qwq", "-", "plus">>,
     <<"gpt", "-", "4">>}

\* the prefixes matchModel tests; "xxx" is a provider added the documented
\* way whose prefix overlaps DeepSeek's
Prefixes(a) ==
    CASE a = "deepseek" -> {<<"deepseek", "-">>}
      [] a = "claude" -> {<<"claude", "-">>}
      [] a = "qwen" -> {<<"qwen">>, <<"qwq">>}
      [] a = "xxx" -> {<<"deepseek">>}

\* provider.matchModel(model): model.startsWith(prefix) for one of its prefixes
matchModel(a, model) == \E pre \in Prefixes(a) : IsPrefixOf(pre, model)

\* registry.resolve(model): the adapters' matchModel in registration order
RECURSIVE ResolveFrom(_, _, _)
ResolveFrom(reg, model, i) ==
    IF i > Len(reg) THEN NoProvider
    ELSE IF matchModel(reg[i], model) THEN reg[i]
    ELSE ResolveFrom(reg, model, i + 1)

Resolve(reg, model) == ResolveFrom(reg, model, 1)

UnsupportedNever(provider) == FALSE

\* if (!provider)
Unsupported(provider) == provider = NoProvider

\* the registries register() can build: distinct adapters in some order
Registries ==
    {reg \in SeqsUpTo(Adapters, MaxAdapters) :
        \A i, j \in DOMAIN reg : i # j => reg[i] # reg[j]}

\* processQueue(providerId): the first k waiting tasks are started, k being
\* what the rate window allows; starting a task calls provider.chat(request)
StartedBy(a, q, k) ==
    /\ admitted' = [admitted EXCEPT ![a] = SubSeq(q, k + 1, Len(q))]
    /\ chatLog' = [chatLog EXCEPT ![a] = @ \o SubSeq(q, 1, k)]
    /\ hPc' = [r \in Requests |->
                 IF \E i \in 1..k : q[i] = r THEN "chatting" ELSE
                 IF hPc[r] = "idle" /\ \E i \in DOMAIN q : q[i] = r THEN "queued"
                 ELSE hPc[r]]

\* app.post("/v1/chat/completions"): resolve, 400 or enqueue on the adapter's queue
HandleChat(r) ==
    /\ hPc[r] = "idle"
    /\ \E model \in ModelIds :
          LET provider == Resolve(registry, model)
          IN  /\ hModel' = [hModel EXCEPT ![r] = model]
              /\ IF Unsupported(provider)
                 THEN /\ hStatus' = [hStatus EXCEPT ![r] = 400]
                      /\ hPc' = [hPc EXCEPT ![r] = "done"]
                      /\ UNCHANGED <<hProvider, admitted, enqLog, chatLog>>
                 ELSE IF provider = NoProvider
                 THEN \* provider.mapModel on null throws: the catch answers 500
                      /\ hStatus' = [hStatus EXCEPT ![r] = 500]
                      /\ hPc' = [hPc EXCEPT ![r] = "done"]
                      /\ UNCHANGED <<hProvider, admitted, enqLog, chatLog>>
                 ELSE /\ hProvider' = [hProvider EXCEPT ![r] = provider]
                      /\ enqLog' = [enqLog EXCEPT ![provider] = Append(@, r)]
                      /\ \E k \in 0..(Len(admitted[provider]) + 1) :
                            StartedBy(provider, Append(admitted[provider], r), k)
                      /\ UNCHANGED hStatus
    /\ UNCHANGED <<registry, nonRouteVars>>

\* a deferral timer of the adapter's queue fires: processQueue again
AdmitLater(a) ==
    /\ admitted[a] # <<>>
    /\ \E k \in 1..Len(admitted[a]) : StartedBy(a, admitted[a], k)
    /\ UNCHANGED <<registry, hModel, hProvider, hStatus, enqLog, nonRouteVars>>

\* provider.chat() settles: the handler answers, the queue goes on
ChatSettles(r) ==
    /\ hPc[r] = "chatting"
    /\ \E code \in {200, 500} : hStatus' = [hStatus EXCEPT ![r] = code]
    /\ \E k \in 0..Len(admitted[hProvider[r]]) :
          /\ admitted' = [admitted EXCEPT ![hProvider[r]] =
                             SubSeq(@, k + 1, Len(@))]
          /\ chatLog' = [chatLog EXCEPT ![hProvider[r]] =
                            @ \o SubSeq(admitted[hProvider[r]], 1, k)]
          /\ hPc' = [q \in Requests |->
                       IF q = r THEN "done"
                       ELSE IF \E i \in 1..k : admitted[hProvider[r]][i] = q
                            THEN "chatting" ELSE hPc[q]]
    /\ UNCHANGED <<registry, hModel, hProvider, enqLog, nonRouteVars>>

RouteInit ==
    /\ registry \in Registries
    /\ hPc = [r \in Requests |-> "idle"]
    /\ hModel = [r \in Requests |-> <<>>]
    /\ hProvider = [r \in Requests |-> NoProvider]
    /\ hStatus = [r \in Requests |-> 0]
    /\ admitted = [a \in Adapters |-> <<>>]
    /\ enqLog = [a \in Adapters |-> <<>>]
    /\ chatLog = [a \in Adapters |-> <<>>]
    /\ QueueIdle /\ maxPerMinute = 0
    /\ ConvIdle
    /\ ParserIdle
    /\ PoolIdle
    /\ ChatIdle
    /\ RefIdle
    /\ ProvIdle
    /\ SanIdle
    /\ LoadIdle
    /\ ClaudeConvIdle

RouteNextStep ==
    \/ \E r \in Requests : HandleChat(r)
    \/ \E a \in Adapters : AdmitLater(a)
    \/ \E r \in Requests : ChatSettles(r)

SpecRoute == RouteInit /\ [][RouteNextStep]_vars

\* ------------------------------------------------------------ routing claims
\* the positions of the registry whose adapter matches the model
Matching(model) == {i \in DOMAIN registry : matchModel(registry[i], model)}

MaxClaudeLines == 4  \* lines in a Claude upstream response

\* the event names that matter to the converter, and one that does not
ClaudeEvents == {"content_block_delta", "message_delta", "message_stop", "ping"}

\* what follows "data:" on a line: JSON with delta.text, JSON with
\* delta.stop_reason, another JSON object, text that is not JSON, nothing, [DONE]
Payloads == {"text", "stopReason", "object", "bad", "empty", "done"}

ClaudeLines ==
    {[kind |-> "event", ev |-> e, payload |-> "none"] : e \in ClaudeEvents}
    \cup {[kind |-> "data", ev |-> "none", payload |-> p] : p \in Payloads}

\* JSON.parse(dataStr) does not throw
ParsesClaude(payload) == payload \in {"text", "stopReason", "object"}

\* if (!dataStr || dataStr === "[DONE]")
IsSentinel(payload) == payload \in {"empty", "done"}

\* extractClaudeText(data, currentEvent) is a non-empty string
HasClaudeText(payload, event) == event = "content_block_delta" /\ payload = "text"

\* currentEvent === "message_stop" || currentEvent === "message_delta" && data.delta?.stop_reason
IsEnd(payload, event) ==
    \/ event = "message_stop"
    \/ event = "message_delta" /\ payload = "stopReason"

\* what one line pushes, given currentEvent
ClaudePushed(f, event, i) ==
    IF f.kind = "event" THEN <<>>
    ELSE IF IsSentinel(f.payload) THEN <<Chunk("DONE", i)>>
    ELSE IF ~ParsesClaude(f.payload) THEN <<>>
    ELSE (IF HasClaudeText(f.payload, event) THEN <<Chunk("content", i)>> ELSE <<>>)
         \o (IF IsEnd(f.payload, event) THEN <<Chunk("stop", i), Chunk("DONE", i)>>
             ELSE <<>>)

\* transform(chunk): the next line of the buffer
ClaudeTransform ==
    /\ ~claudeFlushed
    /\ claudeConsumed < Len(claudeUpstream)
    /\ claudeConsumed' = claudeConsumed + 1
    /\ LET i == claudeConsumed + 1
           f == claudeUpstream[i]
       IN  /\ currentEvent' = IF f.kind = "event" THEN f.ev ELSE currentEvent
           /\ claudeOut' = claudeOut \o ClaudePushed(f, currentEvent, i)
    /\ UNCHANGED <<claudeUpstream, claudeFlushed, nonClaudeVars>>

\* flush(): the stop chunk, then the sentinel
ClaudeFlush ==
    /\ ~claudeFlushed
    /\ claudeConsumed = Len(claudeUpstream)
    /\ claudeFlushed' = TRUE
    /\ claudeOut' = claudeOut \o <<Chunk("stop", 0), Chunk("DONE", 0)>>
    /\ UNCHANGED <<claudeUpstream, claudeConsumed, currentEvent, nonClaudeVars>>

\* createClaudeStreamConverter(options) and the upstream it is piped from
ClaudeInit ==
    /\ claudeUpstream \in UNION {[1..n -> ClaudeLines] : n \in 0..MaxClaudeLines}
    /\ claudeConsumed = 0
    /\ currentEvent = ""
    /\ claudeOut = <<>>
    /\ claudeFlushed = FALSE
    /\ QueueIdle /\ maxPerMinute = 0
    /\ ConvIdle
    /\ ParserIdle
    /\ PoolIdle
    /\ ChatIdle
    /\ RefIdle
    /\ ProvIdle
    /\ SanIdle
    /\ LoadIdle
    /\ RouteIdle

ClaudeNextStep == ClaudeTransform \/ ClaudeFlush

SpecClaude == ClaudeInit /\ [][ClaudeNextStep]_vars

\* ------------------------------------ the Claude converter as a function
RECURSIVE ClaudeDone(_, _)
\* the first n lines of ls through transform, from a new converter
ClaudeDone(ls, n) ==
    IF n = 0 THEN [event |-> "", out |-> <<>>]
    ELSE LET st == ClaudeDone(ls, n - 1)
         IN  [event |-> IF ls[n].kind = "event" THEN ls[n].ev ELSE st.event,
              out |-> st.out \o ClaudePushed(ls[n], st.event, n)]

\* everything the converter pushes for the upstream ls
ClaudeConverted(ls) == ClaudeDone(ls, Len(ls)).out \o <<Chunk("stop", 0), Chunk("DONE", 0)>>

\* ------------------------------------------ claims about the Claude converter
\* a data frame that is not JSON: other text, or nothing at all
IsBadFrame(f) == f.kind = "data" /\ f.payload \in {"bad", "empty"}
IsGoodLine(f) == ~IsBadFrame(f)

\* the chunks of o, each named by the place of its line among the good lines of ls
Renumbered(o, ls) ==
    [j \in DOMAIN o |->
        Chunk(o[j].type,
              IF o[j].src = 0 THEN 0
              ELSE Cardinality({i \in 1..o[j].src : IsGoodLine(ls[i])}))]

\* C21: data frames that are not JSON change nothing: the chunks pushed for an
\* upstream are those pushed for the same upstream without these frames, and
\* the step that takes such a frame leaves currentEvent and the output alone.
C21_BadFramesSkipped ==
    /\ [](claudeFlushed =>
            Renumbered(claudeOut, claudeUpstream)
               = ClaudeConverted(SelectSeq(claudeUpstream, IsGoodLine)))
    /\ [][(claudeConsumed' = claudeConsumed + 1 /\ IsBadFrame(claudeUpstream[claudeConsumed']))
            => (claudeOut' = claudeOut /\ currentEvent' = currentEvent)]_vars

IsStopChunk(c) == c.type = "stop"

\* line i has been processed and is a message_stop event's data frame or a
\* message_delta one carrying a stop reason
StopProcessedAt(i) ==
    /\ i \in 1..claudeConsumed
    /\ claudeUpstream[i].kind = "data"
    /\ ParsesClaude(claudeUpstream[i].payload)
    /\ IsEnd(claudeUpstream[i].payload, ClaudeDone(claudeUpstream, i - 1).event)

\* C26: once the Claude converter processed a message_stop frame, or a
\* message_delta frame with a stop reason, the stop chunk and the [DONE]
\* sentinel pushed for that frame are the end of the outbound stream: nothing
\* is pushed for a later frame or at end of input, and there is one stop chunk.
C26_ClosedAfterStop ==
    \A i \in 1..MaxClaudeLines :
        (StopProcessedAt(i) /\ \A j \in 1..(i - 1) : ~StopProcessedAt(j)) =>
            LET n == Len(claudeOut)
            IN  /\ n >= 2
                /\ claudeOut[n - 1] = Chunk("stop", i)
                /\ claudeOut[n] = Chunk("DONE", i)
                /\ Len(SelectSeq(claudeOut, IsStopChunk)) = 1

\* ------------------------------------------------------ collectFullResponse
\* the text after the marker that collectFullResponse adds to content: any
\* text sanitize keeps, whitespace included
KeptAfterMarker(body) == body \in {"markerTail", "markerBlank"}

\* one line through the loop body of collectFullResponse: st holds
\* thinkingPhase, thinkingEnded and the frames whose text went into content
\* and into reasoning
CollectStep(st, f, i) ==
    CASE f.kind \in {"done", "bad"} -> st
      [] f.kind = "json" /\ HasMarker(f.body) ->
           [st EXCEPT !.phase = FALSE, !.ended = TRUE,
                      !.content = IF KeptAfterMarker(f.body) THEN Append(@, i) ELSE @]
      [] OTHER ->
           LET r == IsReasoning(f.hint, st.phase, st.ended)
               switch == f.hint = "content" /\ st.phase
           IN  [phase |-> IF switch THEN FALSE ELSE st.phase,
                ended |-> IF switch THEN TRUE ELSE st.ended,
                content |-> IF Sanitized(f.body) /\ ~r THEN Append(st.content, i)
                            ELSE st.content,
                reasoning |-> IF Sanitized(f.body) /\ r THEN Append(st.reasoning, i)
                              ELSE st.reasoning]

RECURSIVE Collected(_, _, _)
\* collectFullResponse over the first n lines of ls
Collected(ls, n, isReasoner) ==
    IF n = 0
    THEN [phase |-> isReasoner, ended |-> FALSE, content |-> <<>>, reasoning |-> <<>>]
    ELSE CollectStep(Collected(ls, n - 1, isReasoner), ls[n], n)

\* the frames whose text the chunks of one type carry, in order
SourcesOf(o, type) ==
    LET sel == SelectSeq(o, LAMBDA c : c.type = type)
    IN  [j \in DOMAIN sel |-> sel[j].src]

\* C22: for every upstream and model, the content collectFullResponse returns
\* is the concatenation of the content deltas the streaming converter pushes
\* for the same upstream, and with stripReasoning off its reasoning_content is
\* the concatenation of the streamed reasoning deltas.
C22_CollectEqualsStream ==
    flushed =>
        LET full == Collected(upstream, Complete, reasoner)
        IN  /\ full.content = SourcesOf(out, "content")
            /\ ~stripReasoning => full.reasoning = SourcesOf(out, "reasoning")

\* ------------------------------------------------- claims about persistence
\* C24: whenever a pool call has returned, the file holds exactly the entry
\* list in memory (same entries, same order, same field values), so a pool
\* reloaded from the file at that moment equals the pool in memory.
C24_StoreEqualsMemory == store.data = Serialize(entries)

\* C25: reorder(ids), for any id list (unknown, repeated or omitted ids), keeps
\* exactly the entries the pool had, each once: the entries named by the list
\* come first, in the order of their first mention, then the entries not
\* mentioned in their previous order.
C25_ReorderKeepsEntries ==
    \A ids \in SeqsUpTo(IdSet, MaxReorderLen) :
        LET r == Reordered(entries, ids)
            known == SelectSeq(ids, LAMBDA id : FindIndex(entries, id) # 0)
            first == {k \in DOMAIN known : \A j \in 1..(k - 1) : known[j] # known[k]}
            mentioned == {ids[k] : k \in DOMAIN ids}
            rest == SelectSeq(entries, LAMBDA e : e.id \notin mentioned)
        IN  /\ Len(r) = Len(entries)
            /\ \A i \in DOMAIN entries :
                  Cardinality({j \in DOMAIN r : r[j] = entries[i]})
                     = Cardinality({j \in DOMAIN entries : entries[j] = entries[i]})
            /\ Len(r) = Cardinality(first) + Len(rest)
            /\ \A k \in first :
                  r[Cardinality({j \in first : j <= k})].id = known[k]
            /\ \A j \in DOMAIN rest : r[Cardinality(first) + j] = rest[j]

\* ------------------------------------------------- CredentialPool.load
\* entries = raw: the objects JSON.parse builds for an array file
Deserialize(data) == [i \in DOMAIN data |-> [data[i] EXCEPT !.ref = i]]

\* whether load() calls save(): only after wrapping a single legacy object
LoadSavesAlways(st) == st.exists
LoadSaves(st) == st.shape = "object"

\* the entry list load() leaves in a pool constructed over the file st; id is
\* the uuid it draws when it wraps a legacy object.  No file, JSON that is
\* neither array nor object, and text JSON.parse rejects leave the list empty.
LoadedEntries(st, id) ==
    CASE st.shape = "array" -> Deserialize(st.data)
      [] st.shape = "object" -> <<NewEntryWith(id, 1, st.data)>>
      [] OTHER -> <<>>

\* the file after load()
LoadedStore(st, id) ==
    IF LoadSaves(st) THEN Saved(LoadedEntries(st, id)) ELSE st

\* new CredentialPool(filePath): the process starts (again) over the file
PoolLoad ==
    /\ store.shape = "object" => nextId < MaxIds
    /\ entries' = LoadedEntries(store, nextId + 1)
    /\ store' = LoadedStore(store, nextId + 1)
    /\ loadWrote' = LoadSaves(store)
    /\ nextId' = IF store.shape = "object" THEN nextId + 1 ELSE nextId
    /\ currentIndex' = 0
    /\ strategy' = "round-robin"
    /\ ret' = [op |-> "load", id |-> Null]
    /\ rrHist' = NoHist
    /\ fresh' = TRUE
    /\ streak' = [r \in Refs |-> 0]
    /\ UNCHANGED <<chatVars, handlerVars, queueVars, convVars, parserVars,
                   routeVars, claudeVars, sanVars, provVars, refVars>>

\* the files a first start may find
InitialFiles ==
    {NoFile, Saved(<<>>), OtherFile("scalar"), OtherFile("invalid")}
        \cup {LegacyFile(obj) : obj \in LegacyObjects}

Unbuilt == [op |-> "unbuilt", id |-> Null]

\* before the pool is constructed: only the file exists
LoadInit ==
    /\ store \in InitialFiles
    /\ entries = <<>>
    /\ currentIndex = 0
    /\ strategy = "round-robin"
    /\ nextId = 0
    /\ ret = Unbuilt
    /\ rrHist = NoHist
    /\ fresh = TRUE
    /\ streak = [r \in Refs |-> 0]
    /\ ChatIdle
    /\ kind = "deepseek"
    /\ RestIdle

\* the constructor, and between two starts the calls that write the file
LoadNextStep ==
    \/ PoolLoad
    \/ (ret # Unbuilt /\ PoolAdd)
    \/ (ret # Unbuilt /\ PoolMarkFailed)
    \/ (ret # Unbuilt /\ PoolMarkExpired)
    \/ (ret # Unbuilt /\ PoolRemove)
    \/ (ret # Unbuilt /\ PoolClearAll)

SpecLoad == LoadInit /\ [][LoadNextStep]_vars

IsLoadStep == ret'.op = "load"

\* C23: load() on a file holding a single legacy object leaves exactly one
\* Active entry that wraps the object, with zero counters, and rewrites the
\* file as the one-element array of that entry; load() on an array file (the
\* rewritten one included) yields the entries of the file, ids and fields
\* alike, and leaves the file as it is without writing it.
C23_MigrationIdempotent ==
    [][IsLoadStep =>
        /\ store.shape = "object" =>
             /\ Len(entries') = 1
             /\ entries'[1].credentials = store.data
             /\ entries'[1].status = "active"
             /\ entries'[1].failCount = 0
             /\ entries'[1].lastUsed = 0
             /\ entries'[1].lastError = 0
             /\ store' = [exists |-> TRUE, shape |-> "array",
                          data |-> Serialize(entries')]
             /\ loadWrote'
        /\ store.shape = "array" =>
             /\ Serialize(entries') = store.data
             /\ store' = store
             /\ ~loadWrote']_vars

\* C23 witness: a migrated legacy file has been loaded a second time
C23_Witness ==
    /\ ret.op = "load"
    /\ ~loadWrote
    /\ Len(entries) = 1
    /\ entries[1].credentials \in LegacyObjects
    /\ store = Saved(entries)

\* ---------------------------------------------------------------- sanitize
MaxTokens == 3       \* longest fragment given to sanitize, in tokens

\* what a fragment is made of: a word, whitespace, a zero-width character,
\* "[citation:1]", "[ref_1]", "[search_begin]", a SPECIAL_TOKENS member such as
\* "<|im_end|>", and "[citation:" + zero-width + "1]"
Tokens == {"word", "space", "zw", "citation", "ref", "search", "special", "citationZw"}

Fragments == SeqsUpTo(Tokens, MaxTokens)

\* String.prototype.trim
RECURSIVE TrimLeft(_)
TrimLeft(t) ==
    IF t # <<>> /\ Head(t) = "space" THEN TrimLeft(Tail(t)) ELSE t

RECURSIVE TrimRight(_)
TrimRight(t) ==
    IF t # <<>> /\ t[Len(t)] = "space" THEN TrimRight(SubSeq(t, 1, Len(t) - 1)) ELSE t

TrimText(t) == TrimRight(TrimLeft(t))

\* SPECIAL_TOKENS.has(trimmed)
IsSpecialToken(t) == TrimText(t) = <<"special">>

IsPatternToken(tok) == tok \in {"citation", "ref", "search"}
NotPatternToken(tok) == ~IsPatternToken(tok)
NotZeroWidth(tok) == tok # "zw"

\* .replace(CITATION_RE, "").replace(SEARCH_REF_RE, "").replace(SEARCH_MARKER_RE, "")
StripPatterns(t) == SelectSeq(t, NotPatternToken)

\* .replace(UNICODE_SPECIAL_RE, ""): a citation marker split by a zero-width
\* character is put together by it
StripZeroWidth(t) ==
    LET kept == SelectSeq(t, NotZeroWidth)
    IN  [i \in DOMAIN kept |-> IF kept[i] = "citationZw" THEN "citation" ELSE kept[i]]

NullText == <<"null">>

\* sanitize(text, isReasoning): NullText for null
SanitizeText(t, reasoning) ==
    IF t = <<>> \/ IsSpecialToken(t) THEN NullText
    ELSE LET cleaned == StripZeroWidth(IF reasoning THEN t ELSE StripPatterns(t))
         IN  IF cleaned = <<>> THEN NullText ELSE cleaned

SanInit ==
    /\ rawText \in Fragments
    /\ asReasoning \in BOOLEAN
    /\ emitted = <<>>
    /\ sanDone = FALSE
    /\ PoolIdle
    /\ ChatIdle
    /\ RefIdle
    /\ ProvIdle
    /\ kind = "deepseek"
    /\ QueueIdle /\ maxPerMinute = 0
    /\ ConvIdle /\ ParserIdle /\ RouteIdle /\ ClaudeConvIdle /\ LoadIdle

\* const content = sanitize(rawContent, isReasoning)
Sanitize ==
    /\ ~sanDone
    /\ emitted' = SanitizeText(rawText, asReasoning)
    /\ sanDone' = TRUE
    /\ UNCHANGED <<rawText, asReasoning, nonSanVars>>

SpecSanitize == SanInit /\ [][Sanitize]_vars

IsArtifact(tok) == tok \in {"zw", "citation", "ref", "search", "special", "citationZw"}

\* C27: a reasoning fragment comes out with only its zero-width characters
\* removed (and is not emitted only when nothing else is in it); an emitted
\* content fragment holds no citation, search-reference or search marker, no
\* end-marker token and no zero-width character.
C27_ReasoningKeptContentClean ==
    sanDone =>
        IF asReasoning
        THEN emitted = (IF StripZeroWidth(rawText) = <<>> THEN NullText
                        ELSE StripZeroWidth(rawText))
        ELSE emitted # NullText => \A i \in DOMAIN emitted : ~IsArtifact(emitted[i])

\* ------------------------------------------- the limit changed at run time
\* POST /api/settings/save: requestQueue.setConfig(pid, {maxPerMinute})
SetConfig ==
    /\ \E m \in 0..MaxLimit : m # maxPerMinute /\ maxPerMinute' = m
    /\ UNCHANGED <<queue, processing, timestamps, timer, enq, task, future,
                   started, startAges, burst, clockMoved, nonQueueVars>>

\* calls and settlements within one instant of the clock
QueueCfgNextStep ==
    \/ Enqueue
    \/ \E t \in Tasks : Settle(t)
    \/ \E t \in Tasks : SettleUntracked(t)
    \/ SetConfig

SpecQueueCfg == QueueInit /\ [][QueueCfgNextStep]_vars

IsEnqueueStep == enq' = enq + 1

\* C29: with no limit configured (or a limit <= 0) enqueue starts the action
\* within the call and hands back its outcome; it adds no queue entry, records
\* no window timestamp, leaves the processing counter alone and arms no timer.
C29_UnlimitedRunsAtOnce ==
    /\ [][(IsEnqueueStep /\ maxPerMinute <= 0) =>
            /\ started' = Append(started, enq')
            /\ task'[enq'] = "untracked"
            /\ \A t \in Tasks \ {enq'} : task'[t] = task[t]
            /\ queue' = queue
            /\ timestamps' = timestamps
            /\ processing' = processing
            /\ timer' = timer]_vars
    /\ [](\A t \in Tasks :
            /\ future[t] = "resolved" <=> task[t] = "ok"
            /\ future[t] = "rejected" <=> task[t] = "err")

\* C29 witness: an action was started at once, past a waiting task, an armed
\* timer and a running action, and its outcome went back to its caller
C29_Witness ==
    \E t \in Tasks :
        /\ task[t] = "err"
        /\ future[t] = "rejected"
        /\ \E u \in Tasks : u < t /\ task[u] = "queued"
        /\ queue # <<>>
        /\ timer # NoTimer
        /\ processing > 0
        /\ maxPerMinute = 0

IsRejection(t) == task[t] = "running" /\ task'[t] = "err"

\* C30: when an admitted action rejects, only its own future is rejected, the
\* processing counter goes down by one, and processQueue runs: the queue, the
\* window, the timer and the next start are what they are after a success.
C30_RejectionPumpsQueue ==
    [][\A t \in Tasks : IsRejection(t) =>
          LET r == ProcessQueue(queue, timestamps, timer, processing - 1)
          IN  /\ processing >= 1
              /\ future' = [future EXCEPT ![t] = "rejected"]
              /\ queue' = r.queue
              /\ timestamps' = r.timestamps
              /\ timer' = r.timer
              /\ processing' = r.processing
              /\ started' = (IF r.run = 0 THEN started ELSE Append(started, r.run))
              /\ r.run # 0 => task'[r.run] \in {"running", "untracked"}
              /\ \A u \in Tasks \ {t, r.run} : task'[u] = task[u]]_vars

\* C30 witness: an action was rejected, and a task enqueued after it has been
\* admitted and is running next to another one
C30_Witness ==
    \E t, u \in Tasks :
        /\ t < u
        /\ future[t] = "rejected"
        /\ task[u] = "running"
        /\ future[u] = "pending"
        /\ maxPerMinute = 2
        /\ Len(started) = 3
        /\ processing = 2

\* ------------------------------- several providers behind one RequestQueue
MaxCalls == 3        \* chat requests in one run

\* two of the registered adapters: one that keeps sessions, one that does not
Providers == {"deepseek", "qwen"}
Calls == 1..MaxCalls
NoCall == [prov |-> "none", st |-> "none", tracked |-> FALSE, cred |-> Null,
           alone |-> FALSE]

KeyShared(providerId) == "deepseek"

\* this.queues.get(providerId), this.timestamps.get(providerId), ...
Key(providerId) == providerId

\* the pools a start may load here: full ones whose entries are each Expired
\* or Active and one failure short of Failed
ProviderPools ==
    {es \in LoadedPools :
        Len(es) = MaxEntries /\ \A i \in DOMAIN es : es[i].status = "active" => es[i].failCount > 0}

ProvInit ==
    /\ poolOf \in [Providers -> ProviderPools]
    /\ indexOf = [p \in Providers |-> 0]
    /\ cacheOf = [p \in Providers |-> 0]
    /\ limitOf \in [Providers -> {0, 1}]
    /\ queueOf = [p \in Providers |-> <<>>]
    /\ processingOf = [p \in Providers |-> 0]
    /\ stampsOf = [p \in Providers |-> <<>>]
    /\ timerOf = [p \in Providers |-> NoTimer]
    /\ call = [c \in Calls |-> NoCall]
    /\ actor = "none"
    /\ PoolIdle
    /\ ChatIdle
    /\ RefIdle
    /\ kind = "deepseek"
    /\ QueueIdle /\ maxPerMinute = 0
    /\ ConvIdle /\ ParserIdle /\ RouteIdle /\ ClaudeConvIdle /\ LoadIdle /\ SanIdle

\* processQueue(providerId) after the counter of p became pr and the queue q:
\* the maps at p's key, and the call it started
PumpedAt(p, q, pr, cl) ==
    LET k == Key(p)
        r == ProcessQueueAt(q, stampsOf[k], timerOf[k], pr, limitOf[p])
    IN  /\ queueOf' = [queueOf EXCEPT ![k] = r.queue]
        /\ stampsOf' = [stampsOf EXCEPT ![k] = r.timestamps]
        /\ timerOf' = [timerOf EXCEPT ![k] = r.timer]
        /\ processingOf' = [processingOf EXCEPT ![k] = r.processing]
        /\ call' = IF r.run = 0 THEN cl
                   ELSE [cl EXCEPT ![r.run].st = "running", ![r.run].tracked = r.tracked]

\* the finally block of a tracked action, nothing for an untracked one
Finished(p, c, cl) ==
    IF call[c].tracked
    THEN PumpedAt(p, queueOf[Key(p)],
                  Max(0, (IF processingOf[Key(p)] = 0 THEN 1 ELSE processingOf[Key(p)]) - 1),
                  cl)
    ELSE /\ call' = cl
         /\ UNCHANGED <<queueOf, stampsOf, timerOf, processingOf>>

\* every other provider has no Active credential and a task waiting at capacity
OthersDown(p) ==
    \A o \in Providers \ {p} :
        /\ ActiveOf(poolOf[o]) = <<>>
        /\ queueOf[o] # <<>>

\* the handler: requestQueue.enqueue(provider.id, () => provider.chat(...))
ProvEnqueue(p) ==
    \E c \in Calls :
        /\ call[c] = NoCall
        /\ \A d \in 1..(c - 1) : call[d] # NoCall
        /\ actor' = p
        /\ IF Unlimited(limitOf[p])
           THEN /\ call' = [call EXCEPT ![c] = [NoCall EXCEPT !.prov = p, !.st = "running"]]
                /\ UNCHANGED <<queueOf, stampsOf, timerOf, processingOf>>
           ELSE PumpedAt(p, Pushed(queueOf[Key(p)], c), processingOf[Key(p)],
                         [call EXCEPT ![c] = [NoCall EXCEPT !.prov = p, !.st = "queued"]])
        /\ UNCHANGED <<poolOf, indexOf, cacheOf, limitOf, nonProvVars>>

\* chat(): pool.next(), then the session (DeepSeek only)
ProvChatStart(c) ==
    LET p == call[c].prov
    IN  /\ call[c].st = "running"
        /\ actor' = p
        /\ \E o \in NextOutcomes(poolOf[p], indexOf[p], "round-robin") :
              /\ poolOf' = [poolOf EXCEPT ![p] = AfterNext(@, o.ref)]
              /\ indexOf' = [indexOf EXCEPT ![p] = o.ci]
              /\ IF o.ref = 0
                 THEN /\ Finished(p, c, [call EXCEPT ![c].st = "failed"])
                      /\ cacheOf' = cacheOf
                 ELSE /\ call' = [call EXCEPT ![c].st = "chatting", ![c].cred = o.id]
                      /\ cacheOf' = [cacheOf EXCEPT ![p] =
                                        IF p = "deepseek" /\ @ = 0 THEN c ELSE @]
                      /\ UNCHANGED <<queueOf, stampsOf, timerOf, processingOf>>
        /\ UNCHANGED <<limitOf, nonProvVars>>

\* how the upstream calls of one chat() end: the first call succeeds, the
\* retry on a new session does (DeepSeek), both fail and the fallback entry
\* serves, both fail and the fallback call fails too, an error of another class
Paths == {"ok", "retryOk", "fallbackOk", "fallbackFails", "other"}

\* the pool after chat() took the path; served tells whether a stream came back
ChatEnded(es, ci, cred, path) ==
    CASE path \in {"ok", "retryOk"} ->
            {[entries |-> Marked(es, cred, "markSuccess"), ci |-> ci, served |-> cred]}
      [] path = "other" ->
            {[entries |-> Marked(es, cred, "markFailed"), ci |-> ci, served |-> Null]}
      [] OTHER ->
            LET failed == Marked(es, cred, "markFailed")
            IN  {IF o.ref = 0 \/ o.id = cred \/ path = "fallbackFails"
                 THEN [entries |-> AfterNext(failed, o.ref), ci |-> o.ci, served |-> Null]
                 ELSE [entries |-> Marked(AfterNext(failed, o.ref), o.id, "markSuccess"),
                       ci |-> o.ci, served |-> o.id]
                   : o \in NextOutcomes(failed, ci, "round-robin")}

\* chat() settles, and with it the queued task
ProvChatEnd(c) ==
    LET p == call[c].prov
    IN  /\ call[c].st = "chatting"
        /\ actor' = p
        /\ \E path \in Paths :
              /\ path = "retryOk" => p = "deepseek"
              /\ \E e \in ChatEnded(poolOf[p], indexOf[p], call[c].cred, path) :
                    /\ poolOf' = [poolOf EXCEPT ![p] = e.entries]
                    /\ indexOf' = [indexOf EXCEPT ![p] = e.ci]
                    /\ Finished(p, c, [call EXCEPT ![c].st = IF e.served = Null THEN "failed"
                                                            ELSE "served",
                                                  ![c].cred = e.served,
                                                  ![c].alone = OthersDown(p)])
              /\ cacheOf' = [cacheOf EXCEPT ![p] =
                                IF p = "deepseek" /\ path \notin {"ok", "other"} THEN c ELSE @]
        /\ UNCHANGED <<limitOf, nonProvVars>>

ProvNextStep ==
    \/ \E p \in Providers : ProvEnqueue(p)
    \/ \E c \in Calls : ProvChatStart(c)
    \/ \E c \in Calls : ProvChatEnd(c)

SpecProviders == ProvInit /\ [][ProvNextStep]_vars

\* everything the gateway keeps for provider p
StateOf(p) ==
    <<poolOf[p], indexOf[p], cacheOf[p], limitOf[p], queueOf[p], processingOf[p],
      stampsOf[p], timerOf[p]>>

IdsOf(es) == {es[i].id : i \in DOMAIN es}

\* p's admission window has room for one more start
HasRoom(p) ==
    limitOf[p] <= 0 \/ (queueOf[p] = <<>> /\ Len(Recent(stampsOf[p])) < limitOf[p])

\* an operation on one provider leaves every other provider's pool, session
\* cache, queue, counter, window and timer, and its requests, as they are
OthersUntouched ==
    /\ \A q \in Providers \ {actor'} : StateOf(q)' = StateOf(q)
    /\ \A c \in Calls : call[c].prov \notin {"none", actor'} => call'[c] = call[c]

\* a request is admitted when its own provider's window has room
AdmittedOnOwnWindow ==
    \A c \in Calls :
        (call[c] = NoCall /\ call'[c] # NoCall /\ HasRoom(call'[c].prov)) =>
            call'[c].st = "running"

\* a started chat gets an Active credential of its own provider when there is
\* one, and a served request was served by a credential of that provider
ServedByOwnActive ==
    \A c \in Calls :
        LET p == call[c].prov
        IN  /\ (call[c].st = "running" /\ call'[c].st # "running"
                  /\ ActiveOf(poolOf[p]) # <<>>) =>
               /\ call'[c].st = "chatting"
               /\ \E i \in DOMAIN poolOf[p] :
                     poolOf[p][i].id = call'[c].cred /\ poolOf[p][i].status = "active"
            /\ (call[c].st = "chatting" /\ call'[c].st = "served") =>
               call'[c].cred \in IdsOf(poolOf[p])

\* C28: requests for a provider are admitted on that provider's window and
\* served by that provider's Active credentials whatever state the other
\* providers' pools and queues are in, and no operation on one provider
\* changes another provider's pool, session cache, queue, window or timer.
C28_ProvidersIsolated ==
    [][OthersUntouched /\ AdmittedOnOwnWindow /\ ServedByOwnActive]_vars

\* C28 witness: a request was served by the one Active credential its
\* provider has left, while the other provider had no Active credential and a
\* task waiting at capacity
C28_Witness ==
    \E c \in Calls :
        /\ call[c].st = "served"
        /\ call[c].alone
        /\ \E i \in DOMAIN poolOf[call[c].prov] :
              poolOf[call[c].prov][i].status # "active"
        /\ \A o \in Providers \ {call[c].prov} :
              limitOf[o] = 1 /\ timerOf[o] # NoTimer

\* ------------------------------------- the converter's fallback state
\* frame i carries an explicit non-reasoning signal or the end-of-thinking marker
IsSignal(i) ==
    upstream[i].kind = "json" /\ (HasMarker(upstream[i].body) \/ upstream[i].hint = "content")

SignalIn(n) == \E j \in 1..n : IsSignal(j)

\* frame i has text that survives sanitize and no explicit hint
IsHintless(i) ==
    upstream[i].kind = "json" /\ upstream[i].hint = "none" /\ upstream[i].body = "plain"

InOut(type, i) == \E k \in DOMAIN out : out[k] = Chunk(type, i)

MaxRefPool == 4      \* entries the refreshed pool may grow to

\* how long a bearer token has left: none (exp passed), under the default
\* lead time of 10 min, under the 30 min of expiringSoon, under an hour, more;
\* "opaque" is a bearer that is not a JWT with exp
Remaining == {"expired", "lead", "soon", "hour", "far", "opaque"}

\* leadTimeMs as saved from the settings page: 10 minutes or an hour
Leads == {"short", "long"}

Configs == [enabled : BOOLEAN, lead : Leads]

\* Partial<RefresherConfig>: the fields a caller passes
Partials == {[has |-> h, cfg |-> c] : h \in SUBSET {"enabled", "lead"}, c \in Configs}

\* { ...this.config, ...config }
Merged(old, part) ==
    [enabled |-> IF "enabled" \in part.has THEN part.cfg.enabled ELSE old.enabled,
     lead |-> IF "lead" \in part.has THEN part.cfg.lead ELSE old.lead]

\* stop(), then setInterval unless disabled: the handle and the live timers
Restarted(handle, live, cfg) ==
    LET cleared == IF handle THEN live - 1 ELSE live
    IN  IF cfg.enabled THEN [timer |-> TRUE, live |-> cleared + 1]
        ELSE [timer |-> FALSE, live |-> cleared]

\* start(config)
RefStart ==
    \E part \in Partials :
        LET cfg == Merged(refConfig, part)
            r == Restarted(refTimer, liveTimers, cfg)
        IN  /\ refConfig' = cfg
            /\ refTimer' = r.timer
            /\ liveTimers' = r.live
            /\ refStarted' = TRUE
            /\ UNCHANGED <<refreshing, refPool, nonRefVars>>

\* an updateConfig that starts or stops as the new configuration says
RestartsAlways(wasRunning, cfg) == TRUE

\* if (wasRunning) this.start()
Restarts(wasRunning, cfg) == wasRunning

\* updateConfig(config)
RefUpdateConfig ==
    \E part \in Partials :
        LET cfg == Merged(refConfig, part)
            r == IF Restarts(refTimer, cfg) THEN Restarted(refTimer, liveTimers, cfg)
                 ELSE [timer |-> refTimer, live |-> liveTimers]
        IN  /\ refConfig' = cfg
            /\ refTimer' = r.timer
            /\ liveTimers' = r.live
            /\ UNCHANGED <<refreshing, refPool, refStarted, nonRefVars>>

\* checkExpiry() on pool.first(): valid, and whether check() decides to refresh
Valid(rem) == rem # "expired"
ShouldRefresh(rem, lead) ==
    rem \in {"lead", "soon"} \/ (lead = "long" /\ rem = "hour")

\* the setInterval callback: check(), and refresh() up to its await
RefCheck ==
    /\ liveTimers > 0
    /\ refPool # <<>>
    /\ refreshing' = (refreshing \/ (Valid(refPool[1]) /\ ShouldRefresh(refPool[1], refConfig.lead)))
    /\ UNCHANGED <<refTimer, liveTimers, refConfig, refPool, refStarted, nonRefVars>>

\* captureCredentials settles: pool.add(creds) when it succeeded; finally
RefCaptureDone ==
    /\ refreshing
    /\ \E ok \in BOOLEAN :
          refPool' = IF ok THEN Append(refPool, "far") ELSE refPool
    /\ Len(refPool') <= MaxRefPool
    /\ refreshing' = FALSE
    /\ UNCHANGED <<refTimer, liveTimers, refConfig, refStarted, nonRefVars>>

\* time passes: every token gets closer to its exp
Closer(rem) ==
    CASE rem = "far" -> "hour"
      [] rem = "hour" -> "soon"
      [] rem = "soon" -> "lead"
      [] rem = "lead" -> "expired"
      [] OTHER -> rem

RefTick ==
    /\ \E i \in DOMAIN refPool : Closer(refPool[i]) # refPool[i]
    /\ refPool' = [i \in DOMAIN refPool |-> Closer(refPool[i])]
    /\ UNCHANGED <<refTimer, liveTimers, refConfig, refreshing, refStarted, nonRefVars>>

\* a refresher constructed over a pool holding one credential
RefInit ==
    /\ refTimer = FALSE
    /\ liveTimers = 0
    /\ refConfig = [enabled |-> TRUE, lead |-> "short"]
    /\ refreshing = FALSE
    /\ refPool \in {<<rem>> : rem \in Remaining}
    /\ refStarted = FALSE
    /\ PoolIdle
    /\ ChatIdle
    /\ kind = "deepseek"
    /\ QueueIdle /\ maxPerMinute = 0
    /\ ConvIdle /\ ParserIdle /\ RouteIdle /\ ClaudeConvIdle /\ LoadIdle /\ SanIdle
    /\ ProvIdle

RefNextStep ==
    \/ RefStart
    \/ RefUpdateConfig
    \/ RefCheck
    \/ RefCaptureDone
    \/ RefTick

SpecRefresher == RefInit /\ [][RefNextStep]_vars

\* C32: once start has been called, after any further start and updateConfig
\* calls the periodic check is armed exactly when the configuration has
\* enabled = true, and at most one check timer exists.
C32_RunningIffEnabled ==
    refStarted => /\ refTimer <=> refConfig.enabled
                  /\ liveTimers <= 1
                  /\ refTimer <=> liveTimers = 1

\* C40: as long as no captured credential has itself come near its expiry,
\* the one expiring credential has led to at most one successful capture: the
\* pool holds the original entry and at most one captured one.
C40_OneCapturePerExpiry ==
    (\A i \in DOMAIN refPool : i > 1 => refPool[i] = "far") => Len(refPool) <= 2

\* ------------------------------------------- sessions and credentials
\* C33: every upstream chat call of an adapter that keeps sessions is made
\* with a session handle created by the credential the call is made with, on
\* the first call, the retry and the failover call alike.
C33_SessionOfSameCredential ==
    HasSessions =>
        \A p \in Chats :
            /\ pc[p] \in {"chat1", "chat2"} => sess[p].cred = entry[p].id
            /\ pc[p] = "chatFb" => sess[p].cred = fallback[p].id

\* C34: when two chat() calls for one session key are both in their first
\* upstream call, they use one and the same session handle, and it is the
\* handle the cache holds for that key (a second session was not created).
C34_OneSessionPerKey ==
    HasSessions =>
        \A p, q \in Chats :
            (p # q /\ req[p] = req[q] /\ pc[p] = "chat1" /\ pc[q] = "chat1") =>
                /\ sess[p] = sess[q]
                /\ cache[req[p]] = sess[p]

\* --------------------------------------------------- Expired entries
MaxMarks == 2        \* markFailed / markSuccess calls applied in a row to one entry

RECURSIVE AppliedAll(_, _)
\* the entry object after the mark calls ops, oldest first
AppliedAll(e, ops) ==
    IF ops = <<>> THEN e ELSE AppliedAll(ApplyOp(Head(ops), e), Tail(ops))

\* C35: no sequence of markFailed and markSuccess calls on an Expired entry
\* makes it Active again (so next() does not hand it out until resetStatus or set).
C35_ExpiredStaysExpired ==
    \A i \in DOMAIN entries :
        entries[i].status = "expired" =>
            \A ops \in SeqsUpTo({"markFailed", "markSuccess"}, MaxMarks) :
                AppliedAll(entries[i], ops).status # "active"

\* ------------------------------------------- failed attempts and markFailed
IsFailedAttempt(e) ==
    \/ e.ev = "chat" /\ e.res # "ok"
    \/ e.ev = "create" /\ e.res = "fail"

\* the credentials an upstream attempt of the call logged in l failed with
FailedWith(l) == {l[i].cred : i \in {j \in DOMAIN l : IsFailedAttempt(l[j])}}

\* the credentials the call logged in l applied markFailed to
MarkedFailedIn(l) == {l[i].cred : i \in {j \in DOMAIN l : l[j].ev = "markFailed"}}

\* C36: when chat() ends with an error, every credential an upstream attempt
\* of that call failed with (the first one, and the alternate one of a failing
\* failover attempt) has had markFailed applied by the call.
C36_FailedAttemptsMarked ==
    \A p \in Chats : pc[p] = "failed" => FailedWith(log[p]) \subseteq MarkedFailedIn(log[p])

\* ------------------------------------ the limit lifted while tasks wait
\* the queue with its clock and timer, and setConfig calls that lift the limit
QueueLiftNextStep ==
    \/ QueueNextStep
    \/ (SetConfig /\ maxPerMinute' <= 0)

SpecQueueLift == QueueInit /\ [][QueueLiftNextStep]_vars

\* every running action settles, every armed timer fires, the clock moves on
SpecQueueLiftFair ==
    /\ SpecQueueLift
    /\ \A t \in Tasks : WF_vars(Settle(t))
    /\ \A t \in Tasks : WF_vars(SettleUntracked(t))
    /\ WF_vars(TimerFires)
    /\ WF_vars(Tick)

\* C37: once the limit is lifted (maxPerMinute <= 0) while tasks wait, no task
\* enqueued afterwards is started ahead of them, and every waiting task's
\* action is eventually started.
C37_LiftedLimitDrainsQueue ==
    /\ [][(IsEnqueueStep /\ maxPerMinute <= 0 /\ queue # <<>>) =>
             task'[enq'] \notin {"running", "untracked"}]_vars
    /\ \A t \in Tasks :
          (maxPerMinute <= 0 /\ task[t] = "queued") ~> (task[t] # "queued")

\* ------------------------------------------------ the end of an outbound stream
IsDoneChunk(c) == c.type = "DONE"

\* one stop chunk, one [DONE] sentinel, and the sentinel is the last frame
ClosedOnce(o) ==
    /\ Len(SelectSeq(o, IsStopChunk)) = 1
    /\ Len(SelectSeq(o, IsDoneChunk)) = 1
    /\ o # <<>> /\ IsDoneChunk(o[Len(o)])

\* C38: every completed outbound stream of the DeepSeek converter and of the
\* Claude converter holds exactly one stop chunk and exactly one [DONE]
\* sentinel, and the sentinel is its last frame.
C38_OneStopOneDone ==
    /\ flushed => ClosedOnce(out)
    /\ claudeFlushed => ClosedOnce(claudeOut)

\* ------------------------------------------------ the line left in the buffer
\* C39: at end of input every line of the upstream has gone through the
\* converter, the last one included when no newline follows it: the text
\* chunks of the outbound stream are those all lines yield, and
\* collectFullResponse returns what all lines yield.
C39_LastLineProcessed ==
    flushed =>
        /\ SelectSeq(out, IsText)
              = SelectSeq(Converted(upstream, Len(upstream), reasoner, stripReasoning), IsText)
        /\ Collected(upstream, Complete, reasoner)
              = Collected(upstream, Len(upstream), reasoner)

====
